---------------------------- MODULE Spec2Model ----------------------------
(***************************************************************************)
(* Signal-to-settlement pipeline of the trading backend: the repository    *)
(* (lowdb: an in-memory object graph db.data and the JSON file behind it), *)
(* the reconcile tick (position monitor), the profit-sharing engine, the   *)
(* deposit approval, registration, manual close, the alert handler and the *)
(* signal tick with its entry execution.                                   *)
(*                                                                         *)
(* Money is an integer. The rates of the code (0.3, 0.005, 0.003, 0.002)   *)
(* are kept as per-mille integers and every amount the model feeds in is a *)
(* multiple of 1000, so that rate * amount is exact; IEEE rounding of the  *)
(* JavaScript numbers is outside this model.                               *)
(*                                                                         *)
(* Identifiers made by crypto.randomUUID() are fresh numbers taken from    *)
(* the counter nextId. A user id is the sequence of the '-'-separated      *)
(* parts of the id string: <<"u1">> is the string "u1", and a UUID has     *)
(* five parts.                                                             *)
(***************************************************************************)
EXTENDS Integers, Sequences, FiniteSets, TLC

(***************************************************************************)
(* Bounds of the model.                                                    *)
(***************************************************************************)
MaxIds == 6            \* the last id crypto.randomUUID() hands out to a trade
MaxManualCloses == 1   \* manual closes the venue executes
MaxDeposits == 1       \* deposits waiting for approval
MaxRegistrations == 1  \* accounts registered
MaxSettlements == 2    \* calls of processProfitSharing in SpecSettle
MaxGross == 3          \* the largest gross profit settled there, in thousands

(***************************************************************************)
(* Program constants.                                                      *)
(***************************************************************************)
\* (variant: the first two referral rates exchanged)
REFERRAL_RATES_Exchanged == <<3, 5, 2>>

\* SERVICE_FEE_RATE = 0.3, in per-mille
SERVICE_FEE_RATE == 300
\* REFERRAL_RATES = [0.005, 0.003, 0.002], in per-mille
REFERRAL_RATES == <<5, 3, 2>>

PerMille(amount, rate) == (amount * rate) \div 1000

Undefined == "undefined"

\* an optional number: absent (undefined / null) or present
None == <<>>
Some(x) == <<x>>
\* opt ?? d
OrElse(opt, d) == IF opt = None THEN d ELSE opt[1]

(***************************************************************************)
(* Sequence helpers (Array.prototype.filter / find / map).                 *)
(***************************************************************************)
\* index of the first element satisfying Test, 0 when there is none
FindIndex(s, Test(_)) ==
  LET hits == {i \in 1..Len(s) : Test(s[i])}
  IN IF hits = {} THEN 0 ELSE CHOOSE i \in hits : \A j \in hits : i <= j


(***************************************************************************)
(* The users of the model. U1 and U2 carry ids without '-'; U3 and U4      *)
(* carry UUIDs, as handleRegister issues them; U5 is the user a            *)
(* registration adds. The referrer links form the chain                    *)
(* U1 -> U2 -> U3 -> U4, so the four users have referral chains of length  *)
(* 3, 2, 1 and 0.                                                          *)
(***************************************************************************)
U1 == <<"u1">>
U2 == <<"u2">>
U3 == <<"3c9e", "41d2", "4b7a", "9f10", "a6e5">>
U4 == <<"7d20", "5be1", "4c3f", "8a44", "b1f9">>
U5 == <<"e4a1", "0c77", "4d19", "b2c8", "5f63">>
U6 == <<"0b5d", "92aa", "4e6c", "a3d7", "c8e2">>
Admin == <<"admin">>
NewUsers == <<U5, U6>>

Users == {U1, U2, U3, U4}
Environments == {"testnet", "mainnet"}

\* the amounts a venue reports as unrealized PnL (of a closed and of an open
\* position), and the mark prices it reports
PnlValues == {-1000, 1000}
OpenPnlValues == {1000}
MarkPrices == {50000}

VARIABLES
  mem,      \* db.data: the in-memory repository every handler mutates in place
  file,     \* the JSON file behind it: db.read() loads it, safeWrite() stores it
  nextId,   \* source of fresh ids (crypto.randomUUID)
  tick,     \* the reconcile ticks in flight: each one's position in the handler
  lastReport, \* history: what the venue last answered, and for which position
  sig,      \* the signal ticks in flight: each one's position in the handler
  now,      \* the clock (Date.now()), in minutes
  venue,     \* history: the entry orders the venue was sent, and what became of them
  reply     \* what the alert handler last answered and, history, the calls
            \* executeTrade made to the venue for that alert

(***************************************************************************)
(* Profit-sharing engine.                                                  *)
(***************************************************************************)
ProfileOfUser(db, userId) ==
  FindIndex(db.profiles, LAMBDA p : p.user_id = userId)

ProfileById(db, profileId) ==
  FindIndex(db.profiles, LAMBDA p : p.id = profileId)

\* (variant: the walk does not count its levels)
RECURSIVE ReferralWalkFlat(_, _, _)
ReferralWalkFlat(db, cur, level) ==
  IF cur = 0 \/ db.profiles[cur].referrer_id = Undefined \/ level > 3
  THEN <<>>
  ELSE LET ref == ProfileById(db, db.profiles[cur].referrer_id)
       IN IF ref = 0 THEN <<>>
          ELSE <<[level |-> level, referrerProfile |-> db.profiles[ref]]>>
               \o ReferralWalkFlat(db, ref, level)

\* const getReferralChain: the walk from the profile `cur` at level `level`
RECURSIVE ReferralWalk(_, _, _)
ReferralWalk(db, cur, level) ==
  IF cur = 0 \/ db.profiles[cur].referrer_id = Undefined \/ level > 3
  THEN <<>>
  ELSE LET ref == ProfileById(db, db.profiles[cur].referrer_id)
       IN IF ref = 0 THEN <<>>
          ELSE <<[level |-> level, referrerProfile |-> db.profiles[ref]]>>
               \o ReferralWalk(db, ref, level + 1)

\* (variant: two levels of referrers instead of three)
getReferralChainTwoLevels(db, userId) ==
  SelectSeq(ReferralWalk(db, ProfileOfUser(db, userId), 1),
            LAMBDA entry : entry.level <= 2)

getReferralChain(db, userId) ==
  ReferralWalk(db, ProfileOfUser(db, userId), 1)

BalanceIndex(db, userId, environment) ==
  FindIndex(db.gas_fee_balances,
            LAMBDA b : b.user_id = userId /\ b.environment = environment)

\* (variant: a record is added whether or not one exists)
getOrCreateGasBalanceAlways(db, userId, environment) ==
  [db EXCEPT !.gas_fee_balances =
     Append(@, [user_id |-> userId, environment |-> environment,
                balance |-> 0, total_deposited |-> 0, total_deducted |-> 0])]

\* const getOrCreateGasBalance: the repository with the record present
getOrCreateGasBalance(db, userId, environment) ==
  IF BalanceIndex(db, userId, environment) # 0 THEN db
  ELSE [db EXCEPT !.gas_fee_balances =
          Append(@, [user_id |-> userId, environment |-> environment,
                     balance |-> 0, total_deposited |-> 0,
                     total_deducted |-> 0])]

ReferralRate(level) ==
  IF level \in 1..Len(REFERRAL_RATES) THEN REFERRAL_RATES[level] ELSE 0

\* one turn of the loop over the referral chain: db and the total paid so far
PayCommission(acc, entry, userId, tradeId, grossProfit, environment) ==
  LET rate == ReferralRate(entry.level)
      commission == PerMille(grossProfit, rate)
      beneficiary == entry.referrerProfile.user_id
      db1 == [acc.db EXCEPT !.referral_commissions =
                Append(@, [beneficiary_user_id |-> beneficiary,
                           source_user_id |-> userId,
                           trade_id |-> tradeId,
                           level |-> entry.level,
                           gross_profit |-> grossProfit,
                           commission_rate |-> rate,
                           commission_amount |-> commission,
                           status |-> "paid"])]
      db2 == getOrCreateGasBalance(db1, beneficiary, environment)
      i == BalanceIndex(db2, beneficiary, environment)
      before == db2.gas_fee_balances[i].balance
      db3 == [db2 EXCEPT
                !.gas_fee_balances[i].balance = before + commission,
                !.gas_fee_balances[i].total_deposited = @ + commission,
                !.gas_fee_transactions =
                   Append(@, [user_id |-> beneficiary,
                              amount |-> commission,
                              transaction_type |-> "referral_commission",
                              trade_id |-> tradeId,
                              balance_before |-> before,
                              balance_after |-> before + commission,
                              environment |-> environment])]
  IN IF commission <= 0 THEN acc
     ELSE [db |-> db3, paid |-> acc.paid + commission]

RECURSIVE PayChain(_, _, _, _, _, _)
PayChain(acc, chain, userId, tradeId, grossProfit, environment) ==
  IF chain = <<>> THEN acc
  ELSE PayChain(PayCommission(acc, Head(chain), userId, tradeId,
                              grossProfit, environment),
                Tail(chain), userId, tradeId, grossProfit, environment)

\* (variant: the fee is debited and no ledger transaction is written)
ChargeServiceFeeUnrecorded(db, userId, tradeId, grossProfit, environment) ==
  LET serviceFee == PerMille(grossProfit, SERVICE_FEE_RATE)
      db1 == [db EXCEPT !.profit_settlements =
                Append(@, [user_id |-> userId, trade_id |-> tradeId,
                           gross_profit |-> grossProfit,
                           service_fee_rate |-> SERVICE_FEE_RATE,
                           service_fee_amount |-> serviceFee,
                           net_profit |-> grossProfit - serviceFee])]
      db2 == getOrCreateGasBalance(db1, userId, environment)
      i == BalanceIndex(db2, userId, environment)
  IN [db2 EXCEPT !.gas_fee_balances[i].balance = @ - serviceFee,
                 !.gas_fee_balances[i].total_deducted = @ + serviceFee]

\* (variant: the fee leaves the balance and total_deducted stays as it was)
ChargeServiceFeeUntotalled(db, userId, tradeId, grossProfit, environment) ==
  LET serviceFee == PerMille(grossProfit, SERVICE_FEE_RATE)
      db1 == [db EXCEPT !.profit_settlements =
                Append(@, [user_id |-> userId, trade_id |-> tradeId,
                           gross_profit |-> grossProfit,
                           service_fee_rate |-> SERVICE_FEE_RATE,
                           service_fee_amount |-> serviceFee,
                           net_profit |-> grossProfit - serviceFee])]
      db2 == getOrCreateGasBalance(db1, userId, environment)
      i == BalanceIndex(db2, userId, environment)
      balanceBefore == db2.gas_fee_balances[i].balance
  IN [db2 EXCEPT
        !.gas_fee_balances[i].balance = balanceBefore - serviceFee,
        !.gas_fee_transactions =
           Append(@, [user_id |-> userId,
                      amount |-> 0 - serviceFee,
                      transaction_type |-> "service_fee",
                      trade_id |-> tradeId,
                      balance_before |-> balanceBefore,
                      balance_after |-> balanceBefore - serviceFee,
                      environment |-> environment])]

\* the service-fee part of processProfitSharing: settlement row, debit, ledger
ChargeServiceFee(db, userId, tradeId, grossProfit, environment) ==
  LET serviceFee == PerMille(grossProfit, SERVICE_FEE_RATE)
      netProfit == grossProfit - serviceFee
      db1 == [db EXCEPT !.profit_settlements =
                Append(@, [user_id |-> userId, trade_id |-> tradeId,
                           gross_profit |-> grossProfit,
                           service_fee_rate |-> SERVICE_FEE_RATE,
                           service_fee_amount |-> serviceFee,
                           net_profit |-> netProfit])]
      db2 == getOrCreateGasBalance(db1, userId, environment)
      i == BalanceIndex(db2, userId, environment)
      balanceBefore == db2.gas_fee_balances[i].balance
  IN [db2 EXCEPT
        !.gas_fee_balances[i].balance = balanceBefore - serviceFee,
        !.gas_fee_balances[i].total_deducted = @ + serviceFee,
        !.gas_fee_transactions =
           Append(@, [user_id |-> userId,
                      amount |-> 0 - serviceFee,
                      transaction_type |-> "service_fee",
                      trade_id |-> tradeId,
                      balance_before |-> balanceBefore,
                      balance_after |-> balanceBefore - serviceFee,
                      environment |-> environment])]

\* (variant: a loss is settled like a profit)
processProfitSharingOfLosses(db, userId, tradeId, grossProfit, environment) ==
  LET serviceFee == PerMille(grossProfit, SERVICE_FEE_RATE)
      db1 == ChargeServiceFee(db, userId, tradeId, grossProfit, environment)
  IN [db1 EXCEPT !.admin_earnings =
        Append(@, [source_user_id |-> userId, trade_id |-> tradeId,
                   gross_profit |-> grossProfit,
                   total_service_fee |-> serviceFee,
                   referral_commissions_paid |-> 0,
                   admin_share |-> serviceFee])]

\* const processProfitSharing
processProfitSharing(db, userId, tradeId, grossProfit, environment) ==
  IF grossProfit <= 0 THEN db
  ELSE LET serviceFee == PerMille(grossProfit, SERVICE_FEE_RATE)
           db1 == ChargeServiceFee(db, userId, tradeId, grossProfit, environment)
           paid == PayChain([db |-> db1, paid |-> 0],
                            getReferralChain(db1, userId),
                            userId, tradeId, grossProfit, environment)
       IN [paid.db EXCEPT !.admin_earnings =
             Append(@, [source_user_id |-> userId, trade_id |-> tradeId,
                        gross_profit |-> grossProfit,
                        total_service_fee |-> serviceFee,
                        referral_commissions_paid |-> paid.paid,
                        admin_share |-> serviceFee - paid.paid])]


(***************************************************************************)
(* Position monitor: checkExchangePosition and the reconcile tick.         *)
(***************************************************************************)
\* What the venue may answer to one position query: a failed call, a non-success
\* code or a list without the symbol (ok = FALSE), or the position's entry.
VenueAnswers ==
  {[ok |-> FALSE, size |-> 0, pnl |-> 0, mark |-> 0]}
  \cup {[ok |-> TRUE, size |-> 0, pnl |-> p, mark |-> m] :
          p \in PnlValues, m \in MarkPrices}
  \cup {[ok |-> TRUE, size |-> 1, pnl |-> p, mark |-> m] :
          p \in OpenPnlValues, m \in MarkPrices}

NoPosition == [isOpen |-> FALSE, currentSize |-> 0, unrealizedPnl |-> 0,
               currentPrice |-> 0]

\* (variant: a size of 0 is not read as a closure)
checkExchangePositionNeverClosed(exchange, product, answer) ==
  [isOpen |-> TRUE, currentSize |-> answer.size,
   unrealizedPnl |-> answer.pnl, currentPrice |-> answer.mark]

checkExchangePosition(exchange, product, answer) ==
  IF (exchange = "binance" /\ product = "futures") \/ exchange = "bybit"
  THEN IF answer.ok
       THEN [isOpen |-> answer.size # 0, currentSize |-> answer.size,
             unrealizedPnl |-> answer.pnl, currentPrice |-> answer.mark]
       ELSE NoPosition
  ELSE NoPosition

\* (variant: the backfill forgets what is settled)
SettledTradeIdsForgotten(db) == {}

\* the ids of the settled trades, as the backfill collects them
SettledTradeIds(db) ==
  {db.profit_settlements[i].trade_id : i \in 1..Len(db.profit_settlements)}

IsProfitableTrade(t) ==
  OrElse(t.realized_pnl, 0) > 0
  /\ t.status = "filled"

\* the loop over profitableTrades: trades[i..] still to look at
RECURSIVE BackfillFrom(_, _, _, _)
BackfillFrom(db, settled, trades, i) ==
  IF i > Len(trades) THEN db
  ELSE IF ~IsProfitableTrade(trades[i]) \/ trades[i].id \in settled
       THEN BackfillFrom(db, settled, trades, i + 1)
       ELSE BackfillFrom(
              processProfitSharing(db, trades[i].user_id, trades[i].id,
                                   OrElse(trades[i].realized_pnl, 0),
                                   trades[i].environment),
              settled \cup {trades[i].id}, trades, i + 1)

Backfill(db) == BackfillFrom(db, SettledTradeIds(db), db.trades, 1)

\* `${pos.user_id}-${pos.exchange}-${pos.environment}`, as its '-'-separated parts
GroupKey(pos) == pos.user_id \o <<pos.exchange, pos.environment>>

\* const [userId, exchange, environment] = key.split('-')
SplitKey(key) ==
  [userId |-> <<key[1]>>, exchange |-> key[2], environment |-> key[3]]

\* (variant: a credential that is not active is taken as well)
HasApiKeyInactive(db, userId, exchange, product, environment) ==
  \E i \in 1..Len(db.api_keys) :
     /\ db.api_keys[i].user_id = userId
     /\ db.api_keys[i].exchange = exchange
     /\ db.api_keys[i].product = product
     /\ db.api_keys[i].environment = environment

HasApiKey(db, userId, exchange, product, environment) ==
  \E i \in 1..Len(db.api_keys) :
     /\ db.api_keys[i].user_id = userId
     /\ db.api_keys[i].exchange = exchange
     /\ db.api_keys[i].product = product
     /\ db.api_keys[i].environment = environment
     /\ db.api_keys[i].is_active

\* the keys of the Map userPositions, in insertion order
RECURSIVE GroupKeys(_, _)
GroupKeys(positions, seen) ==
  IF positions = <<>> THEN <<>>
  ELSE LET k == GroupKey(Head(positions))
       IN IF k \in seen THEN GroupKeys(Tail(positions), seen)
          ELSE <<k>> \o GroupKeys(Tail(positions), seen \cup {k})

\* The positions the tick queries on the venue, in the order it does: group by
\* group, the groups without a credential skipped. The credentials never change
\* in this model, so that the lookup made when a group starts is made here.
RECURSIVE VisitOrder(_, _, _)
VisitOrder(db, positions, keys) ==
  IF keys = <<>> THEN <<>>
  ELSE LET k == Head(keys)
           parts == SplitKey(k)
           group == SelectSeq(positions, LAMBDA q : GroupKey(q) = k)
       IN (IF HasApiKey(db, parts.userId, parts.exchange, "futures",
                        parts.environment)
           THEN group ELSE <<>>)
          \o VisitOrder(db, positions, Tail(keys))

OpenPositions(db) == SelectSeq(db.positions, LAMBDA q : q.is_open)

PositionIndex(db, id) == FindIndex(db.positions, LAMBDA q : q.id = id)

TickIds == {1, 2}

IdleTick == [pc |-> "idle", visit |-> <<>>, idx |-> 0, live |-> FALSE,
             own |-> <<>>, wr |-> Undefined, queued |-> FALSE]

\* db.read() by some handler replaces db.data: the objects a tick in flight took
\* from the old db.data are no longer the repository's, and keep their values.
Detach(tk, db) ==
  [t \in TickIds |->
     IF tk[t].live
     THEN [tk[t] EXCEPT
             !.live = FALSE,
             !.own = [i \in 1..Len(tk[t].visit) |->
                        LET j == PositionIndex(db, tk[t].visit[i].id)
                        IN IF j = 0 THEN tk[t].visit[i].is_open
                           ELSE db.positions[j].is_open]]
     ELSE tk[t]]

\* position.is_open read through the tick's own reference to the position
CapturedIsOpen(t) ==
  LET me == tick[t]
      pos == me.visit[me.idx]
      j == PositionIndex(mem, pos.id)
  IN IF me.live
     THEN (IF j = 0 THEN pos.is_open ELSE mem.positions[j].is_open)
     ELSE me.own[me.idx]


(***************************************************************************)
(* The repository the model starts from: four accounts older than the      *)
(* registration code (createMissingProfiles repairs such accounts), of     *)
(* which only U1 has gas-fee balance records; three open positions with    *)
(* their entry trades; deposits waiting for approval.                      *)
(***************************************************************************)
LegacyProfiles ==
  << [id |-> "pf1", user_id |-> U1, referrer_id |-> "pf2", referral_code |-> "rc1"],
     [id |-> "pf2", user_id |-> U2, referrer_id |-> "pf3", referral_code |-> "rc2"],
     [id |-> "pf3", user_id |-> U3, referrer_id |-> "pf4", referral_code |-> "rc3"],
     [id |-> "pf4", user_id |-> U4, referrer_id |-> Undefined, referral_code |-> "rc4"] >>

ApiKeyOf(u, ex, env) ==
  [user_id |-> u, exchange |-> ex, product |-> "futures", environment |-> env,
   is_active |-> TRUE]

LegacyApiKeys ==
  << ApiKeyOf(U1, "binance", "testnet"), ApiKeyOf(U2, "bybit", "mainnet"),
     ApiKeyOf(U3, "bybit", "mainnet"), ApiKeyOf(U4, "binance", "testnet") >>

PositionOf(id, u, ex, env, sym, side) ==
  [id |-> id, user_id |-> u, exchange |-> ex, environment |-> env,
   symbol |-> sym, side |-> side, size |-> 1, entry_price |-> 40000,
   current_price |-> 40000, unrealized_pnl |-> 0, is_open |-> TRUE]

LegacyPositions ==
  << PositionOf(1, U1, "binance", "testnet", "BTCUSDT", "long"),
     PositionOf(2, U2, "bybit", "mainnet", "ETHUSDT", "short"),
     PositionOf(3, U3, "bybit", "mainnet", "BTCUSDT", "long") >>

EntryTradeOf(pos) ==
  [id |-> pos.id, user_id |-> pos.user_id, exchange |-> pos.exchange,
   environment |-> pos.environment, symbol |-> pos.symbol,
   side |-> IF pos.side = "long" THEN "buy" ELSE "sell",
   price |-> pos.entry_price, quantity |-> pos.size,
   realized_pnl |-> None, status |-> "filled",
   triggered_by |-> "tradingview", created_at |-> 0]

AllDeposits ==
  << [id |-> 1, user_id |-> U2, environment |-> "mainnet", amount |-> 5000,
      status |-> "pending"],
     [id |-> 2, user_id |-> U1, environment |-> "testnet", amount |-> 5000,
      status |-> "pending"] >>

\* s1 is fully configured; s3 leaves to the signal tick's defaults whatever a
\* strategy may leave out: no signal_mode, auto_signal_enabled false,
\* max_positions and auto_signal_interval 0, no use_tp1
LegacyStrategies ==
  << [id |-> "s1", user_id |-> U1, exchange |-> "binance",
      product |-> "futures", environment |-> "testnet", is_active |-> TRUE,
      signal_mode |-> "auto", auto_signal_enabled |-> Some(TRUE),
      allowed_pairs |-> <<"BTCUSDT">>, max_positions |-> 3,
      auto_signal_interval |-> 2, use_tp1 |-> Some(TRUE),
      tp1_close_percent |-> 50, use_trailing_stop |-> TRUE,
      trailing_stop_callback |-> 1,
      position_size_type |-> "fixed", position_size_value |-> 100,
      stop_loss_percent |-> 2,
      max_trades_per_day |-> 0, max_daily_loss |-> 0,
      max_consecutive_losses |-> 0,
      strategy_config |-> [use_trailing_stop |-> TRUE,
                           trailing_stop_callback |-> 1],
      last_signal_at |-> None],
     [id |-> "s3", user_id |-> U3, exchange |-> "bybit",
      product |-> "futures", environment |-> "mainnet", is_active |-> TRUE,
      signal_mode |-> Undefined, auto_signal_enabled |-> Some(FALSE),
      allowed_pairs |-> <<"ETHUSDT">>, max_positions |-> 0,
      auto_signal_interval |-> 0, use_tp1 |-> None,
      tp1_close_percent |-> 0, use_trailing_stop |-> FALSE,
      trailing_stop_callback |-> 0,
      position_size_type |-> "fixed", position_size_value |-> 100,
      stop_loss_percent |-> 2,
      max_trades_per_day |-> 0, max_daily_loss |-> 0,
      max_consecutive_losses |-> 0,
      strategy_config |-> [use_trailing_stop |-> TRUE,
                           trailing_stop_callback |-> 1],
      last_signal_at |-> None] >>

LegacyDb ==
  [ app_users |-> << [id |-> U1, email |-> "e1"], [id |-> U2, email |-> "e2"],
                     [id |-> U3, email |-> "e3"], [id |-> U4, email |-> "e4"] >>,
    user_roles |-> << [user_id |-> Admin, role |-> "admin"] >>,
    profiles |-> LegacyProfiles,
    api_keys |-> LegacyApiKeys,
    trading_strategies |-> LegacyStrategies,
    bot_status |->
      << [user_id |-> U1, environment |-> "testnet", exchange |-> "binance",
          is_running |-> TRUE],
         [user_id |-> U3, environment |-> "mainnet", exchange |-> "bybit",
          is_running |-> TRUE] >>,
    webhook_logs |-> <<>>,
    positions |-> LegacyPositions,
    trades |-> [i \in 1..Len(LegacyPositions) |-> EntryTradeOf(LegacyPositions[i])],
    gas_fee_balances |->
      << [user_id |-> U1, environment |-> "testnet", balance |-> 0,
          total_deposited |-> 0, total_deducted |-> 0],
         [user_id |-> U1, environment |-> "mainnet", balance |-> 0,
          total_deposited |-> 0, total_deducted |-> 0] >>,
    gas_fee_transactions |-> <<>>,
    profit_settlements |-> <<>>,
    referral_commissions |-> <<>>,
    admin_earnings |-> <<>>,
    pending_deposits |-> SubSeq(AllDeposits, 1, MaxDeposits) ]

\* the advisory filter was not asked
NotConsulted == [ok |-> FALSE, execute |-> FALSE, confidence |-> 0,
                 reason |-> "not_consulted"]

NoSignal == [action |-> "none", price |-> 0, confidence |-> 0,
             minConfidence |-> 0, decision |-> NotConsulted,
             consulted |-> FALSE, shouldExecute |-> FALSE]

\* a signal tick that is not running; the fields are the handler's locals,
\* and tried is the list of the orders that the ladder of its latest
\* execution has sent, quantity the quantity of that execution
IdleSignal ==
  [pc |-> "idle", strategies |-> <<>>, si |-> 0, pi |-> 0, signal |-> NoSignal,
   quantity |-> 0, rung |-> 0, lastError |-> Undefined, orderId |-> 0,
   tried |-> <<>>, executionError |-> <<>>]

\* what the alert handler last answered: nothing yet
NoReply == [status |-> 0, error |-> Undefined, message |-> Undefined,
            calls |-> <<>>]

NoReport == [position_id |-> 0, ok |-> FALSE, size |-> 0, wasOpen |-> FALSE,
             closed |-> FALSE]

Init ==
  /\ mem = LegacyDb
  /\ file = LegacyDb
  /\ nextId = Len(LegacyPositions) + 1
  /\ tick = [t \in TickIds |-> IdleTick]
  /\ lastReport = NoReport
  /\ sig = [t \in TickIds |-> IdleSignal]
  /\ now = 0
  /\ venue = <<>>
  /\ reply = NoReply


(***************************************************************************)
(* The reconcile tick, POST /api/position-monitor. It runs from            *)
(* `await db.read()` to its first `await checkExchangePosition` in one     *)
(* step, then one step per venue answer, then the completion of safeWrite. *)
(***************************************************************************)
\* safeWrite(): db.write() serialises db.data when it is called; the file takes
\* the text when the writer gets to it, one write after the other.
BeginWrite(tk, t, db) ==
  [tk EXCEPT ![t] = [IdleTick EXCEPT
                       !.pc = "writing", !.wr = db,
                       !.queued = \E o \in TickIds \ {t} : tk[o].pc = "writing"]]

TickStart(t) ==
  /\ tick[t].pc = "idle"
  /\ LET db0 == Backfill(file)
         positions == OpenPositions(db0)
         visit == VisitOrder(db0, positions, GroupKeys(positions, {}))
         others == Detach(tick, mem)
     IN /\ mem' = db0
        /\ tick' = IF positions = <<>> THEN [others EXCEPT ![t] = IdleTick]
                   ELSE IF visit = <<>> THEN BeginWrite(others, t, db0)
                   ELSE [others EXCEPT ![t] =
                           [IdleTick EXCEPT !.pc = "venue", !.visit = visit,
                                            !.idx = 1, !.live = TRUE]]
  /\ UNCHANGED <<file, nextId, lastReport, reply, sig, now, venue>>

\* the body of the loop over a group's positions for one position, on db.data
\* as it is when the venue answers; isOpen is position.is_open as the tick's
\* own reference to the position gives it
MonitorPosition(db, position, isOpen, answer, tradeId, clock) ==
  LET parts == SplitKey(GroupKey(position))
      exchangePos == checkExchangePosition(parts.exchange, "futures", answer)
      posIndex == PositionIndex(db, position.id)
      db1 == IF exchangePos.currentPrice > 0 /\ posIndex # 0
             THEN [db EXCEPT
                     !.positions[posIndex].current_price =
                        exchangePos.currentPrice,
                     !.positions[posIndex].unrealized_pnl =
                        exchangePos.unrealizedPnl]
             ELSE db
      closing == ~exchangePos.isOpen /\ isOpen /\ posIndex # 0
      db2 == [db1 EXCEPT
                !.positions[posIndex].is_open = FALSE,
                !.positions[posIndex].unrealized_pnl =
                   exchangePos.unrealizedPnl,
                !.trades = Append(@,
                   [id |-> tradeId, user_id |-> position.user_id,
                    exchange |-> position.exchange,
                    environment |-> position.environment,
                    symbol |-> position.symbol,
                    side |-> IF position.side = "long" THEN "sell" ELSE "buy",
                    price |-> IF exchangePos.currentPrice # 0
                              THEN exchangePos.currentPrice
                              ELSE position.entry_price,
                    quantity |-> position.size,
                    realized_pnl |-> Some(exchangePos.unrealizedPnl),
                    status |-> "filled",
                    triggered_by |-> "position_monitor",
                    created_at |-> clock])]
  IN [closing |-> closing,
      db |-> IF closing
             THEN processProfitSharing(db2, position.user_id, tradeId,
                                       exchangePos.unrealizedPnl,
                                       position.environment)
             ELSE db1]

\* the body of the loop over a group's positions, for the position visit[idx]
TickVenue(t, answer) ==
  /\ tick[t].pc = "venue"
  /\ LET me == tick[t]
         position == me.visit[me.idx]
         posIndex == PositionIndex(mem, position.id)
         monitored == MonitorPosition(mem, position, CapturedIsOpen(t), answer,
                                      nextId, now)
         closing == monitored.closing
         db3 == monitored.db
     IN /\ closing => nextId <= MaxIds
        /\ mem' = db3
        /\ nextId' = IF closing THEN nextId + 1 ELSE nextId
        /\ tick' = IF me.idx < Len(me.visit)
                   THEN [tick EXCEPT ![t].idx = me.idx + 1]
                   ELSE BeginWrite(tick, t, db3)
        /\ lastReport' = [position_id |-> position.id,
                          ok |-> answer.ok, size |-> answer.size,
                          wasOpen |-> posIndex # 0 /\ mem.positions[posIndex].is_open,
                          closed |-> closing]
  /\ UNCHANGED <<file, sig, now, venue, reply>>

\* `await safeWrite()` returns: the file holds what db.write() serialised
TickWriteDone(t) ==
  /\ tick[t].pc = "writing"
  /\ ~tick[t].queued
  /\ file' = tick[t].wr
  /\ tick' = [o \in TickIds |->
                IF o = t THEN IdleTick
                ELSE [tick[o] EXCEPT !.queued = FALSE]]
  /\ UNCHANGED <<mem, nextId, lastReport, reply, sig, now, venue>>

AllIdle == \A t \in TickIds : tick[t].pc = "idle"


(***************************************************************************)
(* The other handlers that touch trades, positions and gas-fee balances.   *)
(* Each runs alone here, so that its safeWrite is complete when it ends.   *)
(***************************************************************************)
Exchanges == {"binance", "bybit"}
Symbols == {"BTCUSDT", "ETHUSDT"}

ManualCloses(db) ==
  Cardinality({i \in 1..Len(db.trades) :
                 db.trades[i].triggered_by = "manual_close"})

\* POST /api/exchange-api, action closePosition, by the signed-in user
ManualClose(user, exchange, environment, symbol, answer, closeOk) ==
  /\ ManualCloses(mem) < MaxManualCloses
  /\ nextId <= MaxIds
  /\ IF /\ HasApiKey(mem, user, exchange, "futures", environment)
        /\ answer.ok /\ answer.size # 0 /\ closeOk
     THEN /\ mem' = [mem EXCEPT !.trades = Append(@,
                       [id |-> nextId, user_id |-> user, exchange |-> exchange,
                        environment |-> environment, symbol |-> symbol,
                        side |-> IF answer.size > 0 THEN "sell" ELSE "buy",
                        price |-> answer.mark, quantity |-> answer.size,
                        realized_pnl |-> Some(answer.pnl), status |-> "filled",
                        triggered_by |-> "manual_close",
                        created_at |-> now])]
          /\ file' = mem'
          /\ nextId' = nextId + 1
     ELSE UNCHANGED <<mem, file, nextId>>
  /\ UNCHANGED <<tick, lastReport, reply, sig, now, venue>>

\* POST /api/tradingview-webhook with action 'close'
AlertClose(strategyId, symbol) ==
  LET s == FindIndex(file.trading_strategies, LAMBDA x : x.id = strategyId)
      strategy == file.trading_strategies[s]
      p == FindIndex(file.positions,
                     LAMBDA q : q.user_id = strategy.user_id
                                /\ q.symbol = symbol /\ q.is_open)
  IN /\ tick' = Detach(tick, mem)
     /\ IF /\ s # 0
           /\ strategy.is_active
           /\ HasApiKey(file, strategy.user_id, strategy.exchange,
                        strategy.product, strategy.environment)
           /\ p # 0
        THEN /\ mem' = [file EXCEPT !.positions[p].is_open = FALSE]
             /\ file' = mem'
             /\ reply' = [status |-> 200, error |-> Undefined,
                          message |-> "PositionClosed", calls |-> <<>>]
        ELSE /\ mem' = file
             /\ UNCHANGED file
             /\ reply' =
                  IF s = 0 \/ ~ strategy.is_active
                  THEN [status |-> 404, error |-> "StrategyNotFoundOrInactive",
                        message |-> Undefined, calls |-> <<>>]
                  ELSE IF ~ HasApiKey(file, strategy.user_id,
                                      strategy.exchange, strategy.product,
                                      strategy.environment)
                  THEN [status |-> 400, error |-> "ApiKeysNotConfigured",
                        message |-> Undefined, calls |-> <<>>]
                  ELSE [status |-> 200, error |-> Undefined,
                        message |-> "NoPositionToClose", calls |-> <<>>]
     /\ UNCHANGED <<nextId, lastReport, sig, now, venue>>

\* POST /api/rpc/approve_deposit
ApproveDeposit(caller, depositId) ==
  LET isAdmin == \E i \in 1..Len(file.user_roles) :
                    file.user_roles[i].user_id = caller
                    /\ file.user_roles[i].role = "admin"
      d == FindIndex(file.pending_deposits,
                     LAMBDA x : x.id = depositId /\ x.status = "pending")
      deposit == file.pending_deposits[d]
      b == BalanceIndex(file, deposit.user_id, deposit.environment)
      balanceBefore == IF b = 0 THEN 0 ELSE file.gas_fee_balances[b].balance
      totalDepositedBefore ==
         IF b = 0 THEN 0 ELSE file.gas_fee_balances[b].total_deposited
      balanceAfter == balanceBefore + deposit.amount
      totalDepositedAfter == totalDepositedBefore + deposit.amount
      db1 == IF b # 0
             THEN [file EXCEPT
                     !.gas_fee_balances[b].balance = balanceAfter,
                     !.gas_fee_balances[b].total_deposited = totalDepositedAfter]
             ELSE [file EXCEPT !.gas_fee_balances = Append(@,
                     [user_id |-> deposit.user_id,
                      environment |-> deposit.environment,
                      balance |-> balanceAfter,
                      total_deposited |-> totalDepositedAfter,
                      total_deducted |-> 0])]
      db2 == [db1 EXCEPT
                !.gas_fee_transactions = Append(@,
                   [user_id |-> deposit.user_id, amount |-> deposit.amount,
                    transaction_type |-> "deposit", trade_id |-> Undefined,
                    balance_before |-> balanceBefore,
                    balance_after |-> balanceAfter,
                    environment |-> deposit.environment]),
                !.pending_deposits[d].status = "approved"]
  IN /\ tick' = Detach(tick, mem)
     /\ IF isAdmin /\ d # 0
        THEN mem' = db2 /\ file' = db2
        ELSE mem' = file /\ UNCHANGED file
     /\ UNCHANGED <<nextId, lastReport, reply, sig, now, venue>>

Registrations(db) == Len(db.app_users) - Len(LegacyDb.app_users)

\* handleRegister, POST /api/auth/register
handleRegister(email, referralCode) ==
  LET n == Registrations(mem) + 1
      userId == NewUsers[n]
      r == FindIndex(mem.profiles, LAMBDA x : x.referral_code = referralCode)
      referrerProfileId ==
         IF referralCode # Undefined /\ r # 0 THEN mem.profiles[r].id
         ELSE Undefined
      zero(env) == [user_id |-> userId, environment |-> env, balance |-> 0,
                    total_deposited |-> 0, total_deducted |-> 0]
  IN /\ Registrations(mem) < MaxRegistrations
     /\ IF \E i \in 1..Len(mem.app_users) : mem.app_users[i].email = email
        THEN UNCHANGED <<mem, file>>
        ELSE /\ mem' = [mem EXCEPT
                  !.app_users = Append(@, [id |-> userId, email |-> email]),
                  !.profiles = Append(@,
                     [id |-> <<"pf", n>>, user_id |-> userId,
                      referrer_id |-> referrerProfileId,
                      referral_code |-> <<"rc", n>>]),
                  !.bot_status = Append(@,
                     [user_id |-> userId, environment |-> "testnet",
                      exchange |-> "binance", is_running |-> FALSE]),
                  !.gas_fee_balances = @ \o <<zero("testnet"), zero("mainnet")>>]
             /\ file' = mem'
     /\ UNCHANGED <<nextId, tick, lastReport, reply, sig, now, venue>>

vars == <<mem, file, nextId, tick, lastReport, sig, now, venue, reply>>

\* Serial operation of the trading side: reconcile ticks, manual closes and
\* close alerts, one handler at a time.
Next ==
  \/ AllIdle /\ TickStart(1)
  \/ \E answer \in VenueAnswers : TickVenue(1, answer)
  \/ TickWriteDone(1)
  \/ /\ AllIdle
     /\ \E user \in Users, exchange \in Exchanges, environment \in Environments,
           symbol \in {"BTCUSDT"}, answer \in VenueAnswers, closeOk \in BOOLEAN :
           ManualClose(user, exchange, environment, symbol, answer, closeOk)
  \/ /\ AllIdle
     /\ \E strategyId \in {"s1", "s3", "s9"}, symbol \in Symbols :
           AlertClose(strategyId, symbol)

Spec == Init /\ [][Next]_vars

\* Serial operation of the gas-fee ledger: registrations, deposit approvals and
\* the settlements of the reconcile tick, one handler at a time.
NextLedger ==
  \/ AllIdle /\ TickStart(1)
  \/ \E answer \in VenueAnswers : TickVenue(1, answer)
  \/ TickWriteDone(1)
  \/ /\ AllIdle
     /\ \E caller \in {Admin, U1}, depositId \in 1..Len(AllDeposits) :
           ApproveDeposit(caller, depositId)
  \/ /\ AllIdle
     /\ \E email \in {"e1", "e5", "e6"}, referralCode \in {Undefined, "rc1"} :
           handleRegister(email, referralCode)

SpecLedger == Init /\ [][NextLedger]_vars


(***************************************************************************)
(* Properties of the serial trading side (Spec).                           *)
(***************************************************************************)
Count(s, Test(_)) == Cardinality({i \in 1..Len(s) : Test(s[i])})

TradeIds(db) == {db.trades[i].id : i \in 1..Len(db.trades)}

\* the rows the profit-sharing cascade has written for one trade id
SettlementsOf(db, id) == Count(db.profit_settlements, LAMBDA r : r.trade_id = id)
AdminRowsOf(db, id) == Count(db.admin_earnings, LAMBDA r : r.trade_id = id)
FeeTransactionsOf(db, id) ==
  Count(db.gas_fee_transactions,
        LAMBDA r : r.transaction_type = "service_fee" /\ r.trade_id = id)
CommissionsOf(db, id, level) ==
  Count(db.referral_commissions,
        LAMBDA r : r.trade_id = id /\ r.level = level)
CommissionTransactionsOf(db, id, user) ==
  Count(db.gas_fee_transactions,
        LAMBDA r : r.transaction_type = "referral_commission"
                   /\ r.trade_id = id /\ r.user_id = user)

SettledOnce(db) ==
  \A id \in TradeIds(db) :
     /\ SettlementsOf(db, id) <= 1
     /\ AdminRowsOf(db, id) <= 1
     /\ FeeTransactionsOf(db, id) <= 1
     /\ \A level \in 1..3 : CommissionsOf(db, id, level) <= 1
     /\ \A user \in Users : CommissionTransactionsOf(db, id, user) <= 1

\* C1: with one handler running at a time, the repository (db.data and the
\* file) holds at most one settlement per trade id, and at most one admin row,
\* fee transaction and per-level commission for it; the backfill of a tick
\* leaves a repository whose profitable trades are all settled as it found it.
Thm_C1 ==
  \A db \in {mem, file} :
     /\ SettledOnce(db)
     /\ SettledOnce(Backfill(db))
     /\ Backfill(Backfill(db)) = Backfill(db)

\* a tick has started on a repository that holds a settled manual close, and a
\* settled closing trade of the monitor is there as well
Wit_C1 ==
  /\ tick[1].pc = "venue"
  /\ \E i \in 1..Len(file.trades) :
        /\ file.trades[i].triggered_by = "manual_close"
        /\ SettlementsOf(file, file.trades[i].id) = 1
  /\ \E i \in 1..Len(mem.trades) :
        /\ mem.trades[i].triggered_by = "position_monitor"
        /\ SettlementsOf(mem, mem.trades[i].id) = 1

\* the closing trades of the monitor that belong to a position
MonitorTradesOf(db, pos) ==
  {i \in 1..Len(db.trades) :
     /\ db.trades[i].triggered_by = "position_monitor"
     /\ db.trades[i].user_id = pos.user_id
     /\ db.trades[i].exchange = pos.exchange
     /\ db.trades[i].environment = pos.environment
     /\ db.trades[i].symbol = pos.symbol}

\* C2: with one tick running at a time, once the venue has reported size 0 for
\* a position that was open in the repository, the position is closed, exactly
\* one closing trade of the monitor exists for it and that trade has at most
\* one settlement; no position ever has two closing trades of the monitor.
Thm_C2 ==
  /\ \A i \in 1..Len(mem.positions) :
        /\ Cardinality(MonitorTradesOf(mem, mem.positions[i])) <= 1
        /\ \A k \in MonitorTradesOf(mem, mem.positions[i]) :
              /\ ~mem.positions[i].is_open
              /\ SettlementsOf(mem, mem.trades[k].id) <= 1
  /\ (lastReport.position_id # 0 /\ lastReport.ok /\ lastReport.size = 0
      /\ lastReport.wasOpen)
     => LET i == PositionIndex(mem, lastReport.position_id)
        IN /\ ~mem.positions[i].is_open
           /\ Cardinality(MonitorTradesOf(mem, mem.positions[i])) = 1

\* the venue has just reported size 0 with a profit for position 1, which was
\* open: the tick closed it and settled its one closing trade
Wit_C2 ==
  /\ lastReport.position_id = 1 /\ lastReport.ok /\ lastReport.size = 0
  /\ lastReport.wasOpen /\ lastReport.closed
  /\ ~mem.positions[1].is_open
  /\ \E k \in MonitorTradesOf(mem, mem.positions[1]) :
        SettlementsOf(mem, mem.trades[k].id) = 1

\* C6: after any sequence of reconcile ticks no two commission rows share a
\* trade id and a level, and every commission row has a level in {1, 2, 3}.
Thm_C6 ==
  \A db \in {mem, file} :
     \A i, j \in 1..Len(db.referral_commissions) :
        /\ db.referral_commissions[i].level \in {1, 2, 3}
        /\ (db.referral_commissions[i].trade_id = db.referral_commissions[j].trade_id
            /\ db.referral_commissions[i].level = db.referral_commissions[j].level)
           => i = j

\* one trade of U1 has paid all three levels, and another trade has paid too
Wit_C6 ==
  \E id \in TradeIds(file) :
     /\ \A level \in 1..3 : CommissionsOf(file, id, level) = 1
     /\ \E other \in TradeIds(file) \ {id} : CommissionsOf(file, other, 1) = 1


(***************************************************************************)
(* Properties of the gas-fee ledger (SpecLedger).                          *)
(***************************************************************************)
LedgerUsers == Users \cup {NewUsers[i] : i \in 1..Len(NewUsers)}

\* the ledger transactions of one balance, in the order they were appended
LedgerOf(db, user, environment) ==
  SelectSeq(db.gas_fee_transactions,
            LAMBDA r : r.user_id = user /\ r.environment = environment)

\* the balance of a user in an environment, 0 when there is no record
BalanceOf(db, user, environment) ==
  LET i == BalanceIndex(db, user, environment)
  IN IF i = 0 THEN 0 ELSE db.gas_fee_balances[i].balance

\* C5: every ledger transaction has balance_after = balance_before + amount,
\* and the transactions of one balance account for every change of it: the
\* first starts from the balance the record was created with (0), each next
\* one starts from where the one before ended, and the last one ends at the
\* balance the repository holds now.
Thm_C5 ==
  \A db \in {mem, file} :
     /\ \A i \in 1..Len(db.gas_fee_transactions) :
           db.gas_fee_transactions[i].balance_after =
              db.gas_fee_transactions[i].balance_before
              + db.gas_fee_transactions[i].amount
     /\ \A user \in LedgerUsers, environment \in Environments :
           LET ledger == LedgerOf(db, user, environment)
           IN /\ \A k \in 1..Len(ledger) :
                    ledger[k].balance_before =
                       IF k = 1 THEN 0 ELSE ledger[k - 1].balance_after
              /\ BalanceOf(db, user, environment) =
                    IF ledger = <<>> THEN 0
                    ELSE ledger[Len(ledger)].balance_after

\* U2's mainnet balance has taken a deposit and a service fee, and U3 has been
\* paid a commission
Wit_C5 ==
  /\ \E k \in 1..Len(LedgerOf(file, U2, "mainnet")) :
        LedgerOf(file, U2, "mainnet")[k].transaction_type = "deposit"
  /\ \E k \in 1..Len(LedgerOf(file, U2, "mainnet")) :
        LedgerOf(file, U2, "mainnet")[k].transaction_type = "service_fee"
  /\ \E k \in 1..Len(LedgerOf(file, U3, "mainnet")) :
        LedgerOf(file, U3, "mainnet")[k].transaction_type = "referral_commission"

BalanceRecordsOf(db, user, environment) ==
  Cardinality({i \in 1..Len(db.gas_fee_balances) :
                 /\ db.gas_fee_balances[i].user_id = user
                 /\ db.gas_fee_balances[i].environment = environment})

RECURSIVE SumAmounts(_)
SumAmounts(ledger) ==
  IF ledger = <<>> THEN 0 ELSE Head(ledger).amount + SumAmounts(Tail(ledger))

\* C8: after registrations, deposit approvals and settlements there is at most
\* one balance record per (user, environment); a reference to a missing
\* balance adds exactly one record, with balance 0, and a reference to an
\* existing one adds none; every record holds 0 plus the amounts of its ledger
\* transactions, whichever handler created it.
Thm_C8 ==
  \A db \in {mem, file} :
     \A user \in LedgerUsers, environment \in Environments :
        LET after == getOrCreateGasBalance(db, user, environment)
        IN /\ BalanceRecordsOf(db, user, environment) <= 1
           /\ BalanceRecordsOf(after, user, environment) = 1
           /\ IF BalanceRecordsOf(db, user, environment) = 0
              THEN /\ Len(after.gas_fee_balances) = Len(db.gas_fee_balances) + 1
                   /\ BalanceOf(after, user, environment) = 0
                   /\ [after EXCEPT !.gas_fee_balances =
                         SubSeq(@, 1, Len(db.gas_fee_balances))] = db
              ELSE after = db
           /\ BalanceOf(db, user, environment) =
                 SumAmounts(LedgerOf(db, user, environment))

\* a registration has made U5's two records, a deposit approval U2's, a
\* settlement U3's and U4's
Wit_C8 ==
  /\ BalanceRecordsOf(file, U5, "testnet") = 1
  /\ BalanceRecordsOf(file, U5, "mainnet") = 1
  /\ BalanceRecordsOf(file, U2, "mainnet") = 1
  /\ BalanceRecordsOf(file, U3, "mainnet") = 1
  /\ BalanceRecordsOf(file, U4, "mainnet") = 1
  /\ \E k \in 1..Len(LedgerOf(file, U2, "mainnet")) :
        /\ LedgerOf(file, U2, "mainnet")[k].transaction_type = "deposit"
        /\ LedgerOf(file, U2, "mainnet")[k].balance_before = 0


(***************************************************************************)
(* The profit-sharing engine on its own: processProfitSharing applied to   *)
(* every trader, environment and gross profit of a bounded set.            *)
(***************************************************************************)
GrossProfits == {1000 * k : k \in (0 - 1)..MaxGross}

SettleTrade(userId, grossProfit, environment) ==
  /\ nextId - Len(LegacyPositions) <= MaxSettlements
  /\ mem' = processProfitSharing(mem, userId, nextId, grossProfit, environment)
  /\ nextId' = nextId + 1
  /\ UNCHANGED <<file, tick, lastReport, reply, sig, now, venue>>

NextSettle ==
  \E userId \in Users, grossProfit \in GrossProfits, environment \in Environments :
     SettleTrade(userId, grossProfit, environment)

SpecSettle == Init /\ [][NextSettle]_vars

\* the referrers above each trader, nearest first, as the profiles link them
Upline ==
  [u \in Users |->
     IF u = U1 THEN <<U2, U3, U4>>
     ELSE IF u = U2 THEN <<U3, U4>>
     ELSE IF u = U3 THEN <<U4>>
     ELSE <<>>]

\* the amount that is exactly `perMille` thousandths of g, if `x` is it
IsShare(x, perMille, g) == x * 1000 = perMille * g

\* what one settlement step must have done, read off the rows it appended
SettledRight ==
  LET n == Len(mem.profit_settlements)
      row == mem'.profit_settlements[n + 1]
      g == row.gross_profit
      trader == row.user_id
      fee == row.service_fee_amount
      environment ==
         mem'.gas_fee_transactions[Len(mem.gas_fee_transactions) + 1].environment
      up == Upline[trader]
      rates == <<5, 3, 2>>
      admin == mem'.admin_earnings[Len(mem.admin_earnings) + 1]
      newCommissions ==
         SubSeq(mem'.referral_commissions, Len(mem.referral_commissions) + 1,
                Len(mem'.referral_commissions))
      paid == SumAmounts([i \in 1..Len(newCommissions) |->
                            [amount |-> newCommissions[i].commission_amount]])
  IN /\ g > 0
     /\ IsShare(fee, 300, g)
     /\ row.net_profit = g - fee
     /\ BalanceOf(mem', trader, environment)
           = BalanceOf(mem, trader, environment) - fee
     /\ Len(newCommissions) = Len(up)
     /\ \A i \in 1..Len(up) :
           /\ newCommissions[i].level = i
           /\ newCommissions[i].beneficiary_user_id = up[i]
           /\ IsShare(newCommissions[i].commission_amount, rates[i], g)
           /\ BalanceOf(mem', up[i], environment)
                 = BalanceOf(mem, up[i], environment)
                   + newCommissions[i].commission_amount
     /\ \A other \in Users, e \in Environments :
           (e # environment \/ (other # trader /\ \A i \in 1..Len(up) : up[i] # other))
           => BalanceOf(mem', other, e) = BalanceOf(mem, other, e)
     /\ Len(mem'.admin_earnings) = Len(mem.admin_earnings) + 1
     /\ admin.total_service_fee = fee
     /\ admin.referral_commissions_paid = paid
     /\ admin.admin_share = fee - paid
     /\ admin.admin_share >= 0

\* C7: every call of the settlement with a gross profit g > 0 appends one
\* settlement and debits the trader's balance by exactly 30% of g, credits the
\* level-i referrer exactly 0.5%, 0.3%, 0.2% of g for each of the trader's k
\* referrers (k in 0..3), leaves every other balance alone, records
\* net profit = g - fee and admin_share = fee - commissions paid >= 0; a call
\* with g <= 0 changes nothing.
Thm_C7 ==
  [][IF Len(mem'.profit_settlements) = Len(mem.profit_settlements) THEN mem' = mem
     ELSE /\ Len(mem'.profit_settlements) = Len(mem.profit_settlements) + 1
          /\ SettledRight]_vars

\* g = 1000 settled for U2, who has two referrers: fee 300, commissions 5 and
\* 3, admin share 292; and a settlement for a trader with three referrers
Wit_C7 ==
  /\ \E i \in 1..Len(mem.admin_earnings) :
        /\ mem.admin_earnings[i].source_user_id = U2
        /\ mem.admin_earnings[i].gross_profit = 1000
        /\ mem.admin_earnings[i].total_service_fee = 300
        /\ mem.admin_earnings[i].referral_commissions_paid = 8
        /\ mem.admin_earnings[i].admin_share = 292
        /\ \E a, b \in 1..Len(mem.referral_commissions) :
              /\ mem.referral_commissions[a].trade_id = mem.admin_earnings[i].trade_id
              /\ mem.referral_commissions[a].commission_amount = 5
              /\ mem.referral_commissions[b].trade_id = mem.admin_earnings[i].trade_id
              /\ mem.referral_commissions[b].commission_amount = 3
  /\ \E i \in 1..Len(mem.admin_earnings) :
        mem.admin_earnings[i].source_user_id = U1


(***************************************************************************)
(* Overlapping reconcile ticks. The scheduler posts a tick every minute    *)
(* and does not wait for the one before (cron.ts), so a second tick may    *)
(* start while the first awaits the venue or the file. The venue answers   *)
(* every query here, so that a closure comes from a reported size of 0.    *)
(***************************************************************************)
ReachableVenueAnswers == {a \in VenueAnswers : a.ok}

NextOverlap ==
  \E t \in TickIds :
     \/ TickStart(t)
     \/ \E answer \in ReachableVenueAnswers : TickVenue(t, answer)
     \/ TickWriteDone(t)

SpecOverlap == Init /\ [][NextOverlap]_vars

\* C3 as stated: also when ticks overlap, a position has at most one closing
\* trade of the monitor, and its closure at most one settlement, one fee
\* debit and one commission per referrer.
Cex_C3 ==
  \A i \in 1..Len(mem.positions) :
     LET closing == MonitorTradesOf(mem, mem.positions[i])
         ids == {mem.trades[k].id : k \in closing}
     IN /\ Cardinality(closing) <= 1
        /\ Cardinality({r \in 1..Len(mem.profit_settlements) :
                          mem.profit_settlements[r].trade_id \in ids}) <= 1
        /\ Cardinality({r \in 1..Len(mem.gas_fee_transactions) :
                          /\ mem.gas_fee_transactions[r].transaction_type = "service_fee"
                          /\ mem.gas_fee_transactions[r].trade_id \in ids}) <= 1
        /\ \A level \in 1..3 :
              Cardinality({r \in 1..Len(mem.referral_commissions) :
                             /\ mem.referral_commissions[r].trade_id \in ids
                             /\ mem.referral_commissions[r].level = level}) <= 1


(***************************************************************************)
(* Entry execution: quantities, venue messages, isPrecisionError and       *)
(* formatQty. A quantity is an integer number of ten-thousandths, so that  *)
(* 1.2345 is 12345; a venue message is named here and its text kept in     *)
(* MessageText, one character per element.                                 *)
(***************************************************************************)
MessageText(message) ==
  CASE message = "PrecisionOverMax" ->
       << "P", "r", "e", "c", "i", "s", "i", "o", "n", " ", "i", "s", " ",
       "o", "v", "e", "r", " ", "t", "h", "e", " ", "m", "a", "x", "i",
       "m", "u", "m", " ", "d", "e", "f", "i", "n", "e", "d", " ", "f",
       "o", "r", " ", "t", "h", "i", "s", " ", "a", "s", "s", "e", "t",
       "." >>
    [] message = "QtyInvalid" ->
       << "Q", "t", "y", " ", "i", "n", "v", "a", "l", "i", "d" >>
    [] message = "MarginInsufficient" ->
       << "M", "a", "r", "g", "i", "n", " ", "i", "s", " ", "i", "n", "s",
       "u", "f", "f", "i", "c", "i", "e", "n", "t", "." >>
    [] OTHER ->
       << "F", "a", "i", "l", "e", "d", " ", "t", "o", " ", "s", "e", "t",
       " ", "l", "e", "v", "e", "r", "a", "g", "e" >>

UpperCase == << "A", "B", "C", "D", "E", "F", "G", "H", "I", "J", "K", "L", "M",
                "N", "O", "P", "Q", "R", "S", "T", "U", "V", "W", "X", "Y", "Z" >>
LowerCase == << "a", "b", "c", "d", "e", "f", "g", "h", "i", "j", "k", "l", "m",
                "n", "o", "p", "q", "r", "s", "t", "u", "v", "w", "x", "y", "z" >>

\* one character under the regular expression's i flag
Lower(c) ==
  IF \E k \in 1..Len(UpperCase) : UpperCase[k] = c
  THEN LowerCase[CHOOSE k \in 1..Len(UpperCase) : UpperCase[k] = c]
  ELSE c

\* the text has the word somewhere in it, letter case ignored
Contains(text, word) ==
  \E i \in 1..(Len(text) - Len(word) + 1) :
     \A j \in 1..Len(word) : Lower(text[i + j - 1]) = word[j]

\* /precision|step|lot|qty|quantity|filter failure/
PrecisionWords ==
  { <<"p", "r", "e", "c", "i", "s", "i", "o", "n">>, <<"s", "t", "e", "p">>,
    <<"l", "o", "t">>, <<"q", "t", "y">>,
    <<"q", "u", "a", "n", "t", "i", "t", "y">>,
    <<"f", "i", "l", "t", "e", "r", " ", "f", "a", "i", "l", "u", "r", "e">> }

\* (variant: no venue message counts as a precision error)
isPrecisionErrorNever(message) == FALSE

\* const isPrecisionError
isPrecisionError(message) ==
  IF message = Undefined THEN FALSE
  ELSE \E word \in PrecisionWords : Contains(MessageText(message), word)

RECURSIVE Pow10(_)
Pow10(n) == IF n = 0 THEN 1 ELSE 10 * Pow10(n - 1)

\* "120" -> "12": what replace(/\.?0+$/, '') leaves of a string of digits
RECURSIVE StripTrailingZeros(_)
StripTrailingZeros(n) ==
  IF n # 0 /\ n % 10 = 0 THEN StripTrailingZeros(n \div 10) ELSE n

\* const formatQty: the number the returned string denotes, None for null.
\* With decimals >= 1 the replace removes zeros of the fraction only; with
\* decimals = 0 the string is the integer part and its own zeros go.
formatQty(value, decimals) ==
  LET step == Pow10(4 - decimals)
      floored == value - (value % step)
  IN IF floored <= 0 THEN None
     ELSE IF decimals = 0
          THEN Some(StripTrailingZeros(floored \div step) * step)
          ELSE Some(floored)


(***************************************************************************)
(* The signal tick, POST /api/auto-signal-generator, one action for each   *)
(* stretch of the handler between two suspension points. The quantity is   *)
(* what the sizing gives. safeWrite is taken to reach the file before the  *)
(* next step of any handler. The clock now counts minutes. An error text   *)
(* joined from several is the sequence of its parts, null the empty one.   *)
(***************************************************************************)
\* strategy_config is a record of the keys that are set
getConfigNumber(config, key, fallback) ==
  IF key \in DOMAIN config THEN config[key] ELSE fallback

getConfigBoolean(config, key, fallback) ==
  IF key \in DOMAIN config THEN config[key] ELSE fallback

MaxMinutes == 2
MaxLogs == 2

\* 1.2345, 0.05 and 0.0004
Quantities == {12345, 500, 4}
Actions == {"buy"}

\* the .filter of the handler's first statement
IsAutoStrategy(s) ==
  /\ s.is_active
  /\ (s.signal_mode = "auto" \/ s.signal_mode = Undefined)
  /\ (s.auto_signal_enabled = Some(TRUE)
      \/ ~ OrElse(s.auto_signal_enabled, FALSE))

\* the .map of the handler's first statement, which writes the defaults into
\* the strategy it is given
WithDefaults(s) ==
  [s EXCEPT
     !.allowed_pairs = IF Len(@) = 0 THEN <<"BTCUSDT", "ETHUSDT">> ELSE @,
     !.max_positions = IF @ = 0 THEN 5 ELSE @,
     !.auto_signal_interval = IF @ = 0 THEN 1 ELSE @,
     !.use_tp1 = IF @ = None THEN Some(TRUE) ELSE @,
     !.tp1_close_percent = IF @ = 0 THEN 50 ELSE @]

\* confidences are in thousandths
MIN_SIGNAL_CONFIDENCE == 800

clampNumber(value, min, max) ==
  IF value < min THEN min ELSE IF value > max THEN max ELSE value

MinutesPerDay == 1440

\* the minute the UTC day of the given minute began
DayStart(clock) == clock - (clock % MinutesPerDay)

\* A session bound that is a string is the sequence of what Number() makes
\* of its parts between ':', None for NaN: "00:02" is <<Some(0), Some(2)>>,
\* "22" is <<Some(22)>>, "ab:00" is <<None, Some(0)>>, "" is <<>>. A bound that
\* is not a string is a key that is not set.
\* (variant: a session is never taken to pass midnight)
isWithinTradingSessionSameDay(config, clock) ==
  IF "session_start" \notin DOMAIN config \/ "session_end" \notin DOMAIN config
  THEN TRUE
  ELSE LET start == config.session_start
           end == config.session_end
       IN IF Len(start) < 2 \/ Len(end) < 2 THEN TRUE
          ELSE IF None \in {start[1], start[2], end[1], end[2]} THEN TRUE
          ELSE /\ clock % MinutesPerDay
                    >= OrElse(start[1], 0) * 60 + OrElse(start[2], 0)
               /\ clock % MinutesPerDay
                    <= OrElse(end[1], 0) * 60 + OrElse(end[2], 0)

\* const isWithinTradingSession: the parts after the second are not looked
\* at, a part that is missing is undefined and not finite
isWithinTradingSession(config, clock) ==
  IF "session_start" \notin DOMAIN config \/ "session_end" \notin DOMAIN config
  THEN TRUE
  ELSE LET start == config.session_start
           end == config.session_end
           Part(parts, k) == IF k <= Len(parts) THEN parts[k] ELSE None
           startH == Part(start, 1)
           startM == Part(start, 2)
           endH == Part(end, 1)
           endM == Part(end, 2)
           minutesNow == clock % MinutesPerDay
           startMinutes == OrElse(startH, 0) * 60 + OrElse(startM, 0)
           endMinutes == OrElse(endH, 0) * 60 + OrElse(endM, 0)
       IN IF start = <<>> \/ end = <<>> THEN TRUE
          ELSE IF None \in {startH, startM, endH, endM} THEN TRUE
          ELSE IF startMinutes <= endMinutes
          THEN minutesNow >= startMinutes /\ minutesNow <= endMinutes
          ELSE minutesNow >= startMinutes \/ minutesNow <= endMinutes

\* the user's trades of the day that the given source triggered
DailyTrades(db, userId, source, clock) ==
  Len(SelectSeq(db.trades,
                LAMBDA x : /\ x.user_id = userId
                           /\ x.triggered_by = source
                           /\ x.created_at >= DayStart(clock)))

RECURSIVE SumPnl(_, _)
SumPnl(trades, i) ==
  IF i > Len(trades) THEN 0
  ELSE OrElse(trades[i].realized_pnl, 0) + SumPnl(trades, i + 1)

\* the realized pnl of the user's trades of the day
DailyPnl(db, userId, clock) ==
  SumPnl(SelectSeq(db.trades,
                   LAMBDA x : /\ x.user_id = userId
                              /\ x.created_at >= DayStart(clock)), 1)

\* the scan of the user's trades that have a realized pnl, the latest first
\* (created_at grows with the place in trades): losses are counted up to the
\* first profit, lastLossAt is the time of the latest loss
RECURSIVE ScanLosses(_, _, _)
ScanLosses(recent, i, acc) ==
  IF i = 0 THEN acc
  ELSE LET pnl == OrElse(recent[i].realized_pnl, 0)
       IN IF pnl < 0
          THEN ScanLosses(recent, i - 1,
                 [consecutiveLosses |-> acc.consecutiveLosses + 1,
                  lastLossAt |-> IF acc.lastLossAt = None
                                 THEN Some(recent[i].created_at)
                                 ELSE acc.lastLossAt])
          ELSE IF pnl > 0 THEN acc
          ELSE ScanLosses(recent, i - 1, acc)

LossStreak(db, userId) ==
  LET recent == SelectSeq(db.trades,
                          LAMBDA x : /\ x.user_id = userId
                                     /\ x.realized_pnl # None)
  IN ScanLosses(recent, Len(recent),
                [consecutiveLosses |-> 0, lastLossAt |-> None])

\* the checks of one strategy that strategy_config governs, in the order of
\* the code: "ok" or what the console is told before the continue
TickRiskGate(db, config, clock) ==
  LET strategyConfig == config.strategy_config
      maxTradesPerDay == getConfigNumber(strategyConfig, "max_trades_per_day", 0)
      maxDailyLoss == getConfigNumber(strategyConfig, "max_daily_loss", 0)
      maxConsecutiveLosses ==
        getConfigNumber(strategyConfig, "max_consecutive_losses", 0)
      cooldownMinutes == getConfigNumber(strategyConfig, "cooldown_minutes", 0)
      streak == LossStreak(db, config.user_id)
  IN IF ~ isWithinTradingSession(strategyConfig, clock)
     THEN "OutsideTradingSession"
     ELSE IF /\ maxTradesPerDay > 0
             /\ DailyTrades(db, config.user_id, "auto_strategy", clock)
                   >= maxTradesPerDay
     THEN "MaxTradesPerDayReached"
     ELSE IF maxDailyLoss > 0 /\ DailyPnl(db, config.user_id, clock) <= - maxDailyLoss
     THEN "MaxDailyLossReached"
     ELSE IF /\ maxConsecutiveLosses > 0
             /\ streak.consecutiveLosses >= maxConsecutiveLosses
     THEN IF cooldownMinutes > 0 /\ streak.lastLossAt # None
          THEN IF clock - OrElse(streak.lastLossAt, 0) < cooldownMinutes
               THEN "CooldownActive" ELSE "ok"
          ELSE "MaxConsecutiveLossesReached"
     ELSE "ok"

IsRunning(db, config) ==
  LET b == FindIndex(db.bot_status,
             LAMBDA x : /\ x.user_id = config.user_id
                        /\ x.environment = config.environment
                        /\ (x.exchange = config.exchange
                            \/ x.exchange = Undefined))
  IN b # 0 /\ db.bot_status[b].is_running

OpenCount(db, userId) ==
  Len(SelectSeq(db.positions, LAMBDA q : q.user_id = userId /\ q.is_open))

\* the checks of one strategy that come before its pairs: config is the
\* strategy as the tick read it, db the repository as it is now
PassesGuards(db, config, clock) ==
  /\ TickRiskGate(db, config, clock) = "ok"
  /\ ~ (/\ config.last_signal_at # None
        /\ clock - OrElse(config.last_signal_at, 0) < config.auto_signal_interval)
  /\ HasApiKey(db, config.user_id, config.exchange, config.product,
               config.environment)
  /\ IsRunning(db, config)
  /\ LET b == BalanceIndex(db, config.user_id, config.environment)
     IN b # 0 /\ db.gas_fee_balances[b].balance > 0
  /\ OpenCount(db, config.user_id) < config.max_positions

\* for (const config of strategies): the next strategy that reaches its pairs
RECURSIVE NextEligible(_, _, _, _)
NextEligible(db, strategies, from, clock) ==
  IF from > Len(strategies) THEN 0
  ELSE IF PassesGuards(db, strategies[from], clock) THEN from
  ELSE NextEligible(db, strategies, from + 1, clock)

EnterStrategy(db, strategies, from, clock) ==
  LET i == NextEligible(db, strategies, from, clock)
  IN IF i = 0 THEN IdleSignal
     ELSE [IdleSignal EXCEPT !.pc = "market", !.strategies = strategies,
                             !.si = i, !.pi = 1]

\* the latest ladder and its quantity stay on view when the tick moves on
KeepTried(next, s) ==
  [next EXCEPT !.tried = s.tried, !.quantity = s.quantity,
               !.executionError = s.executionError, !.signal = s.signal]

\* (variant: the end of one pair's turn ends the tick)
AfterPairLeaves(db, s, clock) == KeepTried(IdleSignal, s)

\* for (const pair of pairs): what follows the end of one pair's turn
AfterPair(db, s, clock) ==
  KeepTried(IF s.pi < Len(s.strategies[s.si].allowed_pairs)
            THEN [IdleSignal EXCEPT !.pc = "market",
                                    !.strategies = s.strategies,
                                    !.si = s.si, !.pi = s.pi + 1]
            ELSE EnterStrategy(db, s.strategies, s.si + 1, clock),
            s)

\* (variant: the log does not say what went wrong)
WebhookLogBlank(config, status, error) ==
  [user_id |-> config.user_id, strategy_id |-> config.id, status |-> status,
   error_message |-> Undefined]

WebhookLog(config, status, error) ==
  [user_id |-> config.user_id, strategy_id |-> config.id, status |-> status,
   error_message |-> error]

\* await db.read() up to the first fetchKlines
SignalStart(t) ==
  LET read == [file EXCEPT !.trading_strategies =
                 [i \in 1..Len(@) |->
                    IF IsAutoStrategy(@[i]) THEN WithDefaults(@[i]) ELSE @[i]]]
      strategies == SelectSeq(read.trading_strategies, IsAutoStrategy)
  IN /\ sig[t].pc = "idle"
     /\ mem' = read
     /\ tick' = Detach(tick, mem)
     /\ sig' = [sig EXCEPT ![t] =
                  KeepTried(EnterStrategy(read, strategies, 1, now), sig[t])]
     /\ UNCHANGED <<file, nextId, lastReport, reply, now, venue>>

Confidences == {750, 1000}

\* what getGeminiFilterDecision may return: ok is false when the key is
\* missing, the call fails or the text holds no JSON
Decisions ==
  {[ok |-> FALSE, execute |-> FALSE, confidence |-> 0, reason |-> "gemini_http"]}
  \cup [ok : {TRUE}, execute : BOOLEAN, confidence : {500, 900},
        reason : {"gemini_filter"}]

\* what getBookTicker may return: nothing, or the spread and the slippage in
\* percent
Books == {None, Some([spread |-> 0, slippage |-> 0]),
          Some([spread |-> 2, slippage |-> 0]),
          Some([spread |-> 0, slippage |-> 2])}

\* what the market data, the venue's book, the advisory filter and the sizing
\* give for one pair
MarketOutcomes ==
  [action : {"none"} \cup Actions, price : MarkPrices,
   confidence : Confidences, volume_confirmed : BOOLEAN, book : Books,
   decision : Decisions, quantity : Quantities]

\* (variant: an advisory filter that cannot be reached rejects the signal)
ShouldExecuteFailClosed(confidence, minConfidence, decision) ==
  /\ confidence >= minConfidence
  /\ decision.ok /\ decision.execute /\ decision.confidence >= minConfidence

\* shouldExecute, the decision being what the advisory filter returns if it is
\* asked
ShouldExecute(confidence, minConfidence, decision) ==
  IF ~ (confidence >= minConfidence) THEN FALSE
  ELSE IF decision.ok
       THEN decision.execute /\ decision.confidence >= minConfidence
       ELSE TRUE

minConfidenceOf(config) ==
  clampNumber(getConfigNumber(config.strategy_config, "min_confidence",
                              MIN_SIGNAL_CONFIDENCE), 0, 1000)

\* the spread or the slippage of the book is over a limit that is set
BookOverLimit(strategyConfig, book) ==
  LET maxSpreadPercent == getConfigNumber(strategyConfig, "max_spread_percent", 0)
      maxSlippagePercent ==
        getConfigNumber(strategyConfig, "max_slippage_percent", 0)
  IN /\ maxSpreadPercent > 0 \/ maxSlippagePercent > 0
     /\ book # None
     /\ \/ maxSpreadPercent > 0 /\ OrElse(book, 0).spread > maxSpreadPercent
        \/ maxSlippagePercent > 0 /\ OrElse(book, 0).slippage > maxSlippagePercent

\* fetchKlines, analyzeSignal, the filters and the sizing of one pair
SignalMarket(t, outcome) ==
  LET s == sig[t]
      config == s.strategies[s.si]
      strategyConfig == config.strategy_config
      minConfidence == minConfidenceOf(config)
      consulted == outcome.confidence >= minConfidence
      shouldExecute == ShouldExecute(outcome.confidence, minConfidence,
                                     outcome.decision)
      skipReason == IF ~ consulted THEN "ConfidenceBelowThreshold"
                    ELSE outcome.decision.reason
      signal == [action |-> outcome.action, price |-> outcome.price,
                 confidence |-> outcome.confidence,
                 minConfidence |-> minConfidence,
                 decision |-> IF consulted THEN outcome.decision
                              ELSE NotConsulted,
                 consulted |-> consulted, shouldExecute |-> shouldExecute]
      seen == [s EXCEPT !.signal = signal]
      logged == [mem EXCEPT !.webhook_logs =
                   Append(@, WebhookLog(config, "filtered", skipReason))]
  IN /\ s.pc = "market"
     /\ IF \/ outcome.action = "none"
           \/ /\ getConfigBoolean(strategyConfig, "require_volume_confirmed",
                                  FALSE)
              /\ ~ outcome.volume_confirmed
           \/ BookOverLimit(strategyConfig, outcome.book)
        THEN /\ sig' = [sig EXCEPT ![t] = AfterPair(mem, s, now)]
             /\ UNCHANGED <<mem, file>>
        ELSE IF ~ shouldExecute
        THEN /\ Len(mem.webhook_logs) < MaxLogs
             /\ mem' = logged
             /\ file' = logged
             /\ sig' = [sig EXCEPT ![t] = AfterPair(logged, seen, now)]
        ELSE /\ Len(mem.webhook_logs) < MaxLogs
             /\ sig' = [sig EXCEPT ![t] =
                          [seen EXCEPT !.pc = "leverage",
                                       !.quantity = outcome.quantity,
                                       !.tried = <<>>,
                                       !.executionError = <<>>]]
             /\ UNCHANGED <<mem, file>>
     /\ UNCHANGED <<nextId, tick, lastReport, reply, now, venue>>

\* const attempts = [3, 2, 1, 0]
attempts == <<3, 2, 1, 0>>

\* if (!qtyStr) continue: the first rung from the given one that has a string
RECURSIVE NextRung(_, _)
NextRung(quantity, from) ==
  IF from > Len(attempts) THEN 0
  ELSE IF formatQty(quantity, attempts[from]) # None THEN from
  ELSE NextRung(quantity, from + 1)

\* what the venue answers to an entry order
OrderErrors == {"PrecisionOverMax", "QtyInvalid", "MarginInsufficient"}
OrderResponses == {"ok"} \cup OrderErrors

\* the protective orders a tick sends after an entry accepted at the given
\* decimals: the stop loss, the first take profit if its share of the
\* quantity has a string (use_tp2 and use_tp3 are not set), the trailing stop
\* if strategy_config asks for one
TickLegs(config, quantity, decimals) ==
  LET roundedQty == quantity - (quantity % 10)
      share == (roundedQty * config.tp1_close_percent) \div 100
      tpQty == share - (share % 10)
  IN {"stop_loss"}
     \cup (IF OrElse(config.use_tp1, FALSE) /\ formatQty(tpQty, decimals) # None
           THEN {"take_profit"} ELSE {})
     \cup (IF /\ getConfigBoolean(config.strategy_config,
                                  "use_trailing_stop", FALSE)
              /\ getConfigNumber(config.strategy_config,
                                 "trailing_stop_callback", 0) > 0
           THEN {"trailing_stop"} ELSE {})

\* executionError after the protective orders, of which the venue refused
\* those in failed: on Binance the errors joined in the order of the calls,
\* on Bybit the error of the last take profit or trailing stop refused, the
\* answer to the stop loss not being looked at
ExecutionError(exchange, failed) ==
  IF exchange = "binance"
  THEN SelectSeq(<<"stop_loss", "take_profit", "trailing_stop">>,
                 LAMBDA leg : leg \in failed)
  ELSE IF "trailing_stop" \in failed THEN <<"trailing_stop">>
  ELSE IF "take_profit" \in failed THEN <<"take_profit">>
  ELSE <<>>

\* an entry order the venue has accepted; its place in venue is its order id,
\* failed the protective orders the venue has refused for it; open_count and
\* daily_pnl are what the repository held for the owner when it was sent
VenueEntry(path, db, config, symbol, side, quantity, clock) ==
  [path |-> path, strategy_id |-> config.id, user_id |-> config.user_id,
   symbol |-> symbol, side |-> side, quantity |-> quantity, at |-> clock,
   failed |-> {}, open_count |-> OpenCount(db, config.user_id),
   daily_pnl |-> DailyPnl(db, config.user_id, clock)]

\* the else branch of if (orderSuccess && orderId)
FailEntry(t, s, error) ==
  LET logged == [mem EXCEPT !.webhook_logs =
                   Append(@, WebhookLog(s.strategies[s.si], "failed", error))]
  IN /\ mem' = logged
     /\ file' = logged
     /\ sig' = [sig EXCEPT ![t] = AfterPair(logged, s, now)]

\* the leverage call and the choice of the first rung
SignalLeverage(t, ok) ==
  LET s == sig[t]
      r == NextRung(s.quantity, 1)
  IN /\ s.pc = "leverage"
     /\ IF ~ ok \/ r = 0
        THEN FailEntry(t, s, "FailedToSetLeverage")
        ELSE /\ sig' = [sig EXCEPT ![t] = [s EXCEPT !.pc = "order", !.rung = r]]
             /\ UNCHANGED <<mem, file>>
     /\ UNCHANGED <<nextId, tick, lastReport, reply, now, venue>>

\* one turn of for (const decimals of attempts) that reaches the venue
SignalAttempt(t, response) ==
  LET decimals == attempts[sig[t].rung]
      qtyStr == formatQty(sig[t].quantity, decimals)
      s == [sig[t] EXCEPT !.tried =
              Append(@, [decimals |-> decimals, quantity |-> OrElse(qtyStr, 0),
                         result |-> response])]
      config == s.strategies[s.si]
      r == NextRung(s.quantity, s.rung + 1)
  IN /\ sig[t].pc = "order"
     /\ IF response = "ok"
        THEN /\ venue' = Append(venue,
                  VenueEntry("tick", mem, config, config.allowed_pairs[s.pi],
                             IF s.signal.action = "buy" THEN "BUY" ELSE "SELL",
                             OrElse(qtyStr, 0), now))
             /\ sig' = [sig EXCEPT ![t] =
                          [s EXCEPT !.pc = "protect",
                                    !.orderId = Len(venue) + 1]]
             /\ UNCHANGED <<mem, file>>
        ELSE IF ~ isPrecisionError(response) \/ r = 0
        THEN FailEntry(t, s, response) /\ UNCHANGED venue
        ELSE /\ sig' = [sig EXCEPT ![t] = [s EXCEPT !.rung = r,
                                                    !.lastError = response]]
             /\ UNCHANGED <<mem, file, venue>>
     /\ UNCHANGED <<nextId, tick, lastReport, reply, now>>

\* the Trade, the Position and the executed log of one entry; the trade takes
\* the id nextId and the position the one after
RecordEntry(db, config, symbol, action, price, quantity, orderId, source, clock) ==
  LET i == FindIndex(db.trading_strategies, LAMBDA x : x.id = config.id)
      stamped == IF source = "auto_strategy" /\ i # 0
                 THEN [db EXCEPT !.trading_strategies[i].last_signal_at =
                                    Some(clock)]
                 ELSE db
  IN [stamped EXCEPT
        !.trades = Append(@,
           [id |-> nextId, user_id |-> config.user_id,
            exchange |-> config.exchange, environment |-> config.environment,
            symbol |-> symbol, side |-> action, price |-> price,
            quantity |-> quantity, realized_pnl |-> None, status |-> "filled",
            triggered_by |-> source, order_id |-> orderId,
            created_at |-> clock]),
        !.positions = Append(@,
           [id |-> nextId + 1, user_id |-> config.user_id,
            exchange |-> config.exchange, environment |-> config.environment,
            symbol |-> symbol,
            side |-> IF action = "buy" THEN "long" ELSE "short",
            size |-> quantity, entry_price |-> price, current_price |-> price,
            unrealized_pnl |-> 0, is_open |-> TRUE]),
        !.webhook_logs = Append(@,
           [user_id |-> config.user_id, strategy_id |-> config.id,
            status |-> "executed", error_message |-> Undefined,
            order_id |-> IF source = "auto_strategy" THEN Some(orderId)
                         ELSE None])]

\* the stop loss, the take profits and the trailing stop of an accepted
\* order, then if (orderSuccess && orderId): whatever the legs did, the
\* entry is recorded
SignalProtect(t, failed) ==
  LET s == [sig[t] EXCEPT !.executionError =
              ExecutionError(sig[t].strategies[sig[t].si].exchange, failed)]
      config == s.strategies[s.si]
      pair == config.allowed_pairs[s.pi]
      recorded == RecordEntry(mem, config, pair, s.signal.action,
                              s.signal.price, s.quantity, s.orderId,
                              "auto_strategy", now)
  IN /\ sig[t].pc = "protect"
     /\ failed \subseteq TickLegs(config, s.quantity, attempts[s.rung])
     /\ venue' = [venue EXCEPT ![s.orderId].failed = failed]
     /\ mem' = recorded
     /\ file' = recorded
     /\ nextId' = nextId + 2
     /\ sig' = [sig EXCEPT ![t] = AfterPair(recorded, s, now)]
     /\ UNCHANGED <<tick, lastReport, reply, now>>

\* a minute passes
Minute ==
  /\ now < MaxMinutes
  /\ now' = now + 1
  /\ UNCHANGED <<mem, file, nextId, tick, lastReport, reply, sig, venue>>

\* no quantity, 1.2345, and 0.0004, which Math.floor(quantity * 1000) / 1000
\* makes 0
AlertQuantities == {None, Some(12345), Some(4)}

\* the total balance the venue reports, for the sizing by percent
AccountBalance == 1000

\* the price is one the alert carries (a missing price makes the fixed size
\* infinite)
calculatePositionSize(strategy, currentPrice, balance) ==
  LET riskPercent == getConfigNumber(strategy.strategy_config, "risk_percent", 0)
  IN IF strategy.position_size_type = "fixed"
     THEN (strategy.position_size_value * 10000) \div currentPrice
     ELSE IF riskPercent > 0 /\ strategy.stop_loss_percent > 0
     THEN (balance * riskPercent * 10000)
            \div (currentPrice * strategy.stop_loss_percent)
     ELSE (balance * strategy.position_size_value * 10000)
            \div (100 * currentPrice)

\* the checks of a buy or sell alert between the api keys and the position
\* count, in the order of the code: "ok" or the error of the rejection
AlertRiskGate(db, strategy, clock, book) ==
  LET strategyConfig == strategy.strategy_config
      maxSpreadPercent == getConfigNumber(strategyConfig, "max_spread_percent", 0)
      maxSlippagePercent ==
        getConfigNumber(strategyConfig, "max_slippage_percent", 0)
  IN IF ~ isWithinTradingSession(strategyConfig, clock)
     THEN "OutsideTradingSession"
     ELSE IF /\ strategy.max_trades_per_day # 0
             /\ DailyTrades(db, strategy.user_id, "tradingview_webhook", clock)
                   >= strategy.max_trades_per_day
     THEN "MaxTradesPerDayReached"
     ELSE IF /\ strategy.max_daily_loss # 0
             /\ DailyPnl(db, strategy.user_id, clock) <= - strategy.max_daily_loss
     THEN "MaxDailyLossReached"
     ELSE IF /\ strategy.max_consecutive_losses > 0
             /\ LossStreak(db, strategy.user_id).consecutiveLosses
                   >= strategy.max_consecutive_losses
     THEN "MaxConsecutiveLossesReached"
     ELSE IF (maxSpreadPercent > 0 \/ maxSlippagePercent > 0) /\ book # None
     THEN IF maxSpreadPercent > 0 /\ OrElse(book, 0).spread > maxSpreadPercent
          THEN "SpreadTooHigh"
          ELSE IF /\ maxSlippagePercent > 0
                  /\ OrElse(book, 0).slippage > maxSlippagePercent
          THEN "SlippageTooHigh"
          ELSE "ok"
     ELSE "ok"

Reply(status, error, message) ==
  [status |-> status, error |-> error, message |-> message, calls |-> <<>>]

\* the protective calls executeTrade makes after an accepted entry when none
\* of them fails, in their order: none without a price; the stop loss (on
\* Bybit one call sets stop loss and first take profit); on Binance the first
\* take profit if its share of the quantity is positive (use_tp2 and use_tp3
\* are not set); the trailing stop if the strategy has one
AlertLegs(strategy, price, roundedQty) ==
  LET share == (roundedQty * strategy.tp1_close_percent) \div 100
      tpQty == share - (share % 10)
  IN IF price <= 0 THEN <<>>
     ELSE <<"stop_loss">>
          \o (IF /\ strategy.exchange = "binance"
                 /\ OrElse(strategy.use_tp1, FALSE) /\ tpQty > 0
              THEN <<"take_profit">> ELSE <<>>)
          \o (IF strategy.use_trailing_stop
                 /\ strategy.trailing_stop_callback > 0
              THEN <<"trailing_stop">> ELSE <<>>)

\* the calls of executeTrade in their order, each with what the venue
\* answered: the leverage call, whose answer is not looked at, one entry
\* order, and after an accepted entry the protective calls up to the first
\* that fails; what Bybit answers to the stop loss is not looked at either
AlertCalls(strategy, price, roundedQty, leverageOk, response, leg) ==
  LET legs == AlertLegs(strategy, price, roundedQty)
      stops == leg # "none" /\ ~ (strategy.exchange = "bybit" /\ leg = "stop_loss")
      last == IF stops THEN FindIndex(legs, LAMBDA x : x = leg) ELSE Len(legs)
  IN << [call |-> "leverage",
         result |-> IF leverageOk THEN "ok" ELSE "FailedToSetLeverage"],
        [call |-> "order", result |-> response, quantity |-> roundedQty] >>
     \o (IF response = "ok"
         THEN [k \in 1..last |->
                 [call |-> legs[k],
                  result |-> IF legs[k] = leg THEN "failed" ELSE "ok"]]
         ELSE <<>>)

\* POST /api/tradingview-webhook with an action other than close,
\* executeTrade included; symbol and action are Undefined when the payload
\* lacks them
AlertEntry(strategyId, alert, leverageOk, response, leg, book) ==
  LET i == FindIndex(file.trading_strategies, LAMBDA x : x.id = strategyId)
      strategy == file.trading_strategies[i]
      gate == AlertRiskGate(file, strategy, now, book)
      quantity == IF alert.quantity # None THEN OrElse(alert.quantity, 0)
                  ELSE calculatePositionSize(strategy, alert.price,
                                             AccountBalance)
      roundedQty == quantity - (quantity % 10)
      supported == \/ strategy.exchange = "binance" /\ strategy.product = "futures"
                   \/ strategy.exchange = "bybit"
      e == Len(venue) + 1
      accepted == roundedQty > 0 /\ supported /\ response = "ok"
      \* executeTrade returns at the first leg that fails, but does not look
      \* at what Bybit answers to the stop loss
      legFailed == leg # "none"
                   /\ ~ (strategy.exchange = "bybit" /\ leg = "stop_loss")
      error == IF roundedQty <= 0 THEN "InvalidPositionSize"
               ELSE IF ~ supported THEN "UnsupportedExchangeOrProduct"
               ELSE IF response # "ok" THEN response
               ELSE leg
      success == accepted /\ ~ legFailed
      calls == IF roundedQty > 0 /\ supported
               THEN AlertCalls(strategy, alert.price, roundedQty, leverageOk,
                               response, leg)
               ELSE <<>>
  IN /\ IF alert.symbol = Undefined \/ alert.action = Undefined
        THEN /\ reply' = Reply(400, "MissingSymbolOrAction", Undefined)
             /\ UNCHANGED <<mem, file, nextId, tick, venue>>
        ELSE /\ tick' = Detach(tick, mem)
             /\ IF i = 0 \/ ~ strategy.is_active
                THEN /\ mem' = file
                     /\ reply' = Reply(404, "StrategyNotFoundOrInactive",
                                       Undefined)
                     /\ UNCHANGED <<file, nextId, venue>>
                ELSE IF ~ HasApiKey(file, strategy.user_id, strategy.exchange,
                                    strategy.product, strategy.environment)
                THEN /\ mem' = file
                     /\ reply' = Reply(400, "ApiKeysNotConfigured", Undefined)
                     /\ UNCHANGED <<file, nextId, venue>>
                ELSE IF gate # "ok"
                THEN /\ Len(file.webhook_logs) < MaxLogs
                     /\ mem' = [file EXCEPT !.webhook_logs =
                                  Append(@, WebhookLog(strategy, "rejected",
                                                       gate))]
                     /\ file' = mem'
                     /\ reply' = Reply(200, gate, Undefined)
                     /\ UNCHANGED <<nextId, venue>>
                ELSE IF OpenCount(file, strategy.user_id) >= strategy.max_positions
                THEN /\ mem' = file
                     /\ reply' = Reply(400, "MaxPositionsReached", Undefined)
                     /\ UNCHANGED <<file, nextId, venue>>
                ELSE /\ Len(file.webhook_logs) < MaxLogs
                     /\ leg = "none" \/
                          /\ accepted
                          /\ \E k \in 1..Len(AlertLegs(strategy, alert.price,
                                                        roundedQty)) :
                                AlertLegs(strategy, alert.price,
                                          roundedQty)[k] = leg
                     /\ venue' =
                          IF accepted
                          THEN Append(venue,
                                 [VenueEntry("alert", file, strategy,
                                    alert.symbol,
                                    IF alert.action = "buy" THEN "BUY"
                                    ELSE "SELL",
                                    roundedQty, now)
                                    EXCEPT !.failed = {leg} \ {"none"}])
                          ELSE venue
                     /\ IF success
                        THEN /\ mem' = RecordEntry(file, strategy, alert.symbol,
                                         alert.action, alert.price,
                                         OrElse(alert.quantity, 0), e,
                                         "tradingview_webhook", now)
                             /\ nextId' = nextId + 2
                             /\ reply' = [Reply(200, Undefined,
                                                "TradeExecutedSuccessfully")
                                            EXCEPT !.calls = calls]
                        ELSE /\ mem' = [file EXCEPT !.webhook_logs =
                                          Append(@, WebhookLog(strategy,
                                                               "failed", error))]
                             /\ reply' = [Reply(500, error, Undefined)
                                            EXCEPT !.calls = calls]
                             /\ UNCHANGED nextId
                     /\ file' = mem'
     /\ UNCHANGED <<lastReport, sig, now>>

\* the alerts sent
Alerts ==
  [symbol : {"BTCUSDT", Undefined}, action : {"buy", "sell", "hold", Undefined},
   price : MarkPrices, quantity : AlertQuantities]

\* U1 and U3 have had a deposit of 5000 approved each
FundedDb ==
  LET funded(userId, env) ==
        [user_id |-> userId, environment |-> env, balance |-> 5000,
         total_deposited |-> 5000, total_deducted |-> 0]
      deposit(userId, env) ==
        [user_id |-> userId, amount |-> 5000, transaction_type |-> "deposit",
         trade_id |-> Undefined, balance_before |-> 0, balance_after |-> 5000,
         environment |-> env]
  IN [LegacyDb EXCEPT
        !.gas_fee_balances = <<funded(U1, "testnet"), @[2],
                               funded(U3, "mainnet")>>,
        !.gas_fee_transactions = <<deposit(U1, "testnet"),
                                   deposit(U3, "mainnet")>>]

InitEntry ==
  /\ mem = FundedDb
  /\ file = FundedDb
  /\ nextId = Len(LegacyPositions) + 1
  /\ tick = [t \in TickIds |-> IdleTick]
  /\ lastReport = NoReport
  /\ sig = [t \in TickIds |-> IdleSignal]
  /\ now = 0
  /\ venue = <<>>
  /\ reply = NoReply

ProtectiveLegs == {"stop_loss", "take_profit", "trailing_stop"}

\* the outcomes of a pair when the volume is confirmed, the book is not
\* fetched and the advisory filter is out of reach or declines
LadderOutcomes ==
  {o \in MarketOutcomes :
     /\ o.volume_confirmed
     /\ o.book = None
     /\ o.decision.ok => (~ o.decision.execute /\ o.decision.confidence = 900)}

\* signal ticks one after the other, all within a minute
NextLadder ==
  \/ SignalStart(1)
  \/ \E outcome \in LadderOutcomes : SignalMarket(1, outcome)
  \/ \E ok \in BOOLEAN : SignalLeverage(1, ok)
  \/ \E response \in OrderResponses : SignalAttempt(1, response)
  \/ \E failed \in SUBSET ProtectiveLegs : SignalProtect(1, failed)

SpecLadder == InitEntry /\ [][NextLadder]_vars

\* signal ticks one after the other and alerts, all within a minute
NextEntry ==
  \/ SignalStart(1)
  \/ \E outcome \in {o \in LadderOutcomes : o.quantity = 500} :
        SignalMarket(1, outcome)
  \/ \E ok \in BOOLEAN : SignalLeverage(1, ok)
  \/ \E response \in OrderResponses : SignalAttempt(1, response)
  \/ \E failed \in {{}, {"stop_loss"}} : SignalProtect(1, failed)
  \/ \E strategyId \in {"s1"},
        alert \in {a \in Alerts : /\ a.symbol = "BTCUSDT" /\ a.action = "buy"
                                  /\ a.quantity # None},
        response \in {"ok", "MarginInsufficient"},
        leg \in {"none", "stop_loss", "take_profit", "trailing_stop"} :
        AlertEntry(strategyId, alert, TRUE, response, leg, None)

SpecEntry == InitEntry /\ [][NextEntry]_vars

(***************************************************************************)
(* The entry ladder of the signal tick.                                    *)
(***************************************************************************)
\* the venue messages that speak of precision, lot, step, quantity or filter
PrecisionClass == {"PrecisionOverMax", "QtyInvalid"}

\* the decimals at which the quantity has a string, finest first
Rungs(quantity) ==
  SelectSeq(<<3, 2, 1, 0>>, LAMBDA d : formatQty(quantity, d) # None)

\* C9: the orders a tick sends for one entry go down 3, 2, 1, 0 decimals,
\* leaving out only the decimals at which the quantity has no string; an
\* order follows another only after a precision error, so that the ladder
\* stops at the first success and at the first other error; a ladder that
\* has ended on a precision error has tried every rung; there are at most
\* 4 orders, and exactly 1 when the first answer is another error.
Thm_C9 ==
  \A t \in TickIds :
     LET h == sig[t].tried
         rungs == Rungs(sig[t].quantity)
     IN /\ Len(h) <= 4
        /\ Len(h) <= Len(rungs)
        /\ \A i \in 1..Len(h) :
              /\ h[i].decimals = rungs[i]
              /\ Some(h[i].quantity) = formatQty(sig[t].quantity, rungs[i])
        /\ \A i \in 1..(Len(h) - 1) : h[i].result \in PrecisionClass
        /\ (Len(h) > 0 /\ h[1].result \notin PrecisionClass) => Len(h) = 1
        /\ (sig[t].pc = "order") =>
              (Len(h) < Len(rungs)
               /\ (Len(h) > 0 => h[Len(h)].result \in PrecisionClass))
        /\ (sig[t].pc # "order" /\ Len(h) > 0
            /\ h[Len(h)].result \in PrecisionClass) => Len(h) = Len(rungs)

\* 1.2345 refused for its precision at 3, 2 and 1 decimals, accepted at 0
Wit_C9 ==
  \E t \in TickIds :
     /\ Len(sig[t].tried) = 4
     /\ sig[t].tried[1].quantity = 12340
     /\ sig[t].tried[4].result = "ok"
     /\ sig[t].pc = "protect"

(***************************************************************************)
(* Entries the venue has accepted and what the repository holds of them.   *)
(***************************************************************************)
EntrySources == {"auto_strategy", "tradingview_webhook"}

\* the handler that got the order accepted has still to record it
InFlight(e) == \E t \in TickIds : sig[t].pc = "protect" /\ sig[t].orderId = e

HasTrade(db, e) ==
  \E i \in 1..Len(db.trades) :
     /\ db.trades[i].triggered_by \in EntrySources
     /\ db.trades[i].order_id = e

HasOpenPosition(db, entry) ==
  \E i \in 1..Len(db.positions) :
     /\ db.positions[i].user_id = entry.user_id
     /\ db.positions[i].symbol = entry.symbol
     /\ db.positions[i].is_open

\* C10: once the handler that sent it is through, every entry order the venue
\* has accepted, from an alert or from a tick, has its Trade and an open
\* Position of its user and symbol in the repository.
Cex_C10 ==
  \A e \in 1..Len(venue) :
     ~ InFlight(e) =>
        \A db \in {mem, file} : HasTrade(db, e) /\ HasOpenPosition(db, venue[e])

(***************************************************************************)
(* Signal ticks that overlap: the scheduler starts one every minute        *)
(* whether or not the one before has answered.                             *)
(***************************************************************************)
NextSignal ==
  \/ \E t \in TickIds :
        \/ SignalStart(t)
        \/ \E outcome \in {o \in LadderOutcomes : o.quantity = 12345} :
              SignalMarket(t, outcome)
        \/ SignalLeverage(t, TRUE)
        \/ \E response \in {"ok", "MarginInsufficient"} :
              SignalAttempt(t, response)
        \/ SignalProtect(t, {})
  \/ Minute

SpecSignal == InitEntry /\ [][NextSignal]_vars

\* the minutes a strategy leaves between two signals
IntervalOf(strategyId) ==
  LET i == FindIndex(mem.trading_strategies, LAMBDA x : x.id = strategyId)
  IN WithDefaults(mem.trading_strategies[i]).auto_signal_interval

\* C4: of the entry orders that ticks have had accepted for one strategy and
\* symbol, no two lie closer together than the strategy's signal interval,
\* whether or not the ticks overlap.
Cex_C4 ==
  \A e1, e2 \in 1..Len(venue) :
     (/\ e1 < e2
      /\ venue[e1].path = "tick" /\ venue[e2].path = "tick"
      /\ venue[e1].strategy_id = venue[e2].strategy_id
      /\ venue[e1].symbol = venue[e2].symbol)
     => venue[e2].at - venue[e1].at >= IntervalOf(venue[e1].strategy_id)

(***************************************************************************)
(* What an entry whose protective orders were refused leaves behind.       *)
(***************************************************************************)
\* the error message names every one of the legs
Surfaces(message, legs) ==
  /\ message # Undefined
  /\ \A leg \in legs : \E k \in 1..Len(message) : message[k] = leg

\* C11: when a tick's entry order is filled and some of its protective orders
\* are refused, the executed log written for the entry carries an error
\* message that names every refused leg, on either venue.
Cex_C11 ==
  \A e \in 1..Len(venue) :
     (venue[e].path = "tick" /\ ~ InFlight(e) /\ venue[e].failed # {})
     => \E i \in 1..Len(mem.webhook_logs) :
           /\ mem.webhook_logs[i].status = "executed"
           /\ mem.webhook_logs[i].order_id = Some(e)
           /\ Surfaces(mem.webhook_logs[i].error_message, venue[e].failed)

(***************************************************************************)
(* What makes the reconcile tick close a position.                         *)
(***************************************************************************)
\* C12: a reconcile tick closes a position (clears its open flag and appends
\* the closing trade) only on a venue query that succeeded and reported the
\* size 0; a failed call, a non-success code or a list without the position
\* leaves the position as it was.
Cex_C12 ==
  lastReport.closed => (lastReport.ok /\ lastReport.size = 0)

(***************************************************************************)
(* The risk gate: strategy s1 with a cap of one trade a day, a daily loss  *)
(* limit of 100, two pairs and room for one more position. The limits are  *)
(* set where the alert handler reads them (the strategy itself), where the *)
(* signal tick reads them (strategy_config), or in both places; the owner  *)
(* has lost nothing yet today, or 150. Ticks and alerts run one at a time. *)
(***************************************************************************)
RiskSetups == [where : {"strategy", "strategy_config", "both"},
               loss : {0, 150}]

RiskDb(setup) ==
  LET atStrategy == setup.where \in {"strategy", "both"}
      atConfig == setup.where \in {"strategy_config", "both"}
      lost == [id |-> 100, user_id |-> U1, exchange |-> "binance",
               environment |-> "testnet", symbol |-> "ETHUSDT",
               side |-> "sell", price |-> 50000, quantity |-> 1,
               realized_pnl |-> Some(- setup.loss), status |-> "filled",
               triggered_by |-> "manual_close", created_at |-> 0]
  IN [FundedDb EXCEPT
        !.trading_strategies[1].allowed_pairs = <<"BTCUSDT", "ETHUSDT">>,
        !.trading_strategies[1].max_positions = 2,
        !.trading_strategies[1].max_trades_per_day =
           IF atStrategy THEN 1 ELSE 0,
        !.trading_strategies[1].max_daily_loss =
           IF atStrategy THEN 100 ELSE 0,
        !.trading_strategies[1].strategy_config =
           IF atConfig
           THEN [max_trades_per_day |-> 1, max_daily_loss |-> 100]
           ELSE [position_side |-> "BOTH"],
        !.trading_strategies[2].is_active = FALSE,
        !.trades = IF setup.loss = 0 THEN @ ELSE Append(@, lost)]

InitRisk ==
  /\ \E setup \in RiskSetups : mem = RiskDb(setup)
  /\ file = mem
  /\ nextId = Len(LegacyPositions) + 1
  /\ tick = [t \in TickIds |-> IdleTick]
  /\ lastReport = NoReport
  /\ sig = [t \in TickIds |-> IdleSignal]
  /\ now = 0
  /\ venue = <<>>
  /\ reply = NoReply

NextRisk ==
  \/ SignalStart(1)
  \/ \E outcome \in {o \in LadderOutcomes :
                       /\ o.quantity = 500 /\ o.confidence = 1000
                       /\ ~ o.decision.ok} :
        SignalMarket(1, outcome)
  \/ SignalLeverage(1, TRUE)
  \/ \E response \in {"ok", "MarginInsufficient"} : SignalAttempt(1, response)
  \/ SignalProtect(1, {})
  \/ /\ sig[1].pc = "idle"
     /\ \E alert \in {a \in Alerts : /\ a.symbol = "BTCUSDT" /\ a.action = "buy"
                                     /\ a.quantity = Some(12345)},
           response \in {"ok", "MarginInsufficient"} :
           AlertEntry("s1", alert, TRUE, response, "none", None)
  \/ /\ sig[1].pc = "idle"
     /\ AlertClose("s1", "BTCUSDT")

SpecRisk == InitRisk /\ [][NextRisk]_vars

StrategyOf(db, strategyId) ==
  db.trading_strategies[FindIndex(db.trading_strategies,
                                  LAMBDA x : x.id = strategyId)]

\* the limit as it is configured, in the one place or the other
ConfiguredLimit(strategy, key) ==
  IF strategy[key] # 0 THEN strategy[key]
  ELSE getConfigNumber(strategy.strategy_config, key, 0)

\* C13: no entry order, of a tick or of an alert, is sent for a strategy that
\* has a max_daily_loss configured while the realized pnl of its owner's
\* trades of the day is at or below minus that limit.
Cex_C13 ==
  \A e \in 1..Len(venue) :
     LET limit == ConfiguredLimit(StrategyOf(mem, venue[e].strategy_id),
                                  "max_daily_loss")
     IN limit > 0 => venue[e].daily_pnl > - limit

\* C14: when an entry order is sent, by a tick or by an alert, the owner has
\* fewer open positions in the repository than the strategy's max_positions,
\* also for the second pair of a tick.
Cex_C14 ==
  \A e \in 1..Len(venue) :
     venue[e].open_count
       < StrategyOf(mem, venue[e].strategy_id).max_positions

\* C15: with a daily cap N > 0 on the trades of the signal tick, the owner
\* has at most N trades of the day triggered by auto_strategy, and with a cap
\* N > 0 on those of the alerts at most N triggered by tradingview_webhook.
Cex_C15 ==
  \A i \in 1..Len(mem.trading_strategies) :
     LET strategy == mem.trading_strategies[i]
         ofTicks == getConfigNumber(strategy.strategy_config,
                                    "max_trades_per_day", 0)
         ofAlerts == strategy.max_trades_per_day
     IN /\ ofTicks > 0 =>
              DailyTrades(mem, strategy.user_id, "auto_strategy", now)
                <= ofTicks
        /\ ofAlerts > 0 =>
              DailyTrades(mem, strategy.user_id, "tradingview_webhook", now)
                <= ofAlerts

\* the errors with which an alert is turned away by a check of the risk gate
RiskGateErrors ==
  {"OutsideTradingSession", "MaxTradesPerDayReached", "MaxDailyLossReached",
   "MaxConsecutiveLossesReached", "SpreadTooHigh", "SlippageTooHigh",
   "MaxPositionsReached"}

\* C17: an alert that a check of the risk gate has turned away has left a
\* webhook log with the status rejected or filtered and the error of the
\* check.
Cex_C17 ==
  reply.error \in RiskGateErrors =>
     \E i \in 1..Len(mem.webhook_logs) :
        /\ mem.webhook_logs[i].status \in {"rejected", "filtered"}
        /\ mem.webhook_logs[i].error_message = reply.error

(***************************************************************************)
(* The confidence threshold and the advisory filter of the signal tick:    *)
(* strategy s1 with the default minimum confidence or with 0.7.            *)
(***************************************************************************)
FilterDb(minConfidence) ==
  IF minConfidence = None THEN FundedDb
  ELSE [FundedDb EXCEPT !.trading_strategies[1].strategy_config =
          [min_confidence |-> OrElse(minConfidence, 0)]]

InitFilter ==
  /\ \E minConfidence \in {None, Some(700)} : mem = FilterDb(minConfidence)
  /\ file = mem
  /\ nextId = Len(LegacyPositions) + 1
  /\ tick = [t \in TickIds |-> IdleTick]
  /\ lastReport = NoReport
  /\ sig = [t \in TickIds |-> IdleSignal]
  /\ now = 0
  /\ venue = <<>>
  /\ reply = NoReply

NextFilter ==
  \/ SignalStart(1)
  \/ \E outcome \in {o \in MarketOutcomes :
                       /\ o.quantity = 500 /\ o.volume_confirmed
                       /\ o.book = None} :
        SignalMarket(1, outcome)
  \/ SignalLeverage(1, TRUE)
  \/ SignalAttempt(1, "ok")
  \/ SignalProtect(1, {})

SpecFilter == InitFilter /\ [][NextFilter]_vars

\* the tick is between the decision to execute and the record of the entry
Executing(t) == sig[t].pc \in {"leverage", "order", "protect"}

NextAlert ==
  \/ \E strategyId \in {"s1", "s9"}, alert \in Alerts,
        response \in {"ok", "MarginInsufficient"},
        leg \in {"none", "stop_loss"} :
        AlertEntry(strategyId, alert, TRUE, response, leg, None)
  \/ \E strategyId \in {"s1", "s9"} : AlertClose(strategyId, "BTCUSDT")

SpecAlert == InitEntry /\ [][NextAlert]_vars

\* the trades that alerts have recorded
AlertTrades(db) ==
  {i \in 1..Len(db.trades) : db.trades[i].triggered_by = "tradingview_webhook"}

\* C18: an alert whose action is none of buy, sell and close, like one that
\* lacks its symbol or its action, is answered with a 4xx status and leaves
\* neither an order at the venue nor a record in the repository: every trade
\* recorded for an alert is a buy or a sell, and so is every answer that is
\* not a 4xx.
Cex_C18 ==
  /\ \A i \in AlertTrades(mem) : mem.trades[i].side \in {"buy", "sell"}
  /\ \A i \in 1..Len(mem.positions) :
        mem.positions[i].id > Len(LegacyPositions) =>
           \E k \in AlertTrades(mem) :
              /\ mem.trades[k].id + 1 = mem.positions[i].id
              /\ mem.trades[k].side \in {"buy", "sell"}

\* C19: the Trade of an executed alert has the quantity of the order that was
\* sent to the venue for it, and the Position recorded with it has that size,
\* the alert's price as entry price and the side long for a buy, short for a
\* sell; both are recorded once, with one executed log.
Cex_C19 ==
  \A i \in AlertTrades(mem) :
     LET trade == mem.trades[i]
         order == venue[trade.order_id]
         p == PositionIndex(mem, trade.id + 1)
     IN /\ trade.status = "filled"
        /\ trade.quantity = order.quantity
        /\ p # 0
        /\ mem.positions[p].is_open => mem.positions[p].size = order.quantity
        /\ mem.positions[p].entry_price = trade.price
        /\ mem.positions[p].side
             = (IF order.side = "BUY" THEN "long" ELSE "short")

(***************************************************************************)
(* An entry order that fails.                                              *)
(***************************************************************************)
\* the tick gives up an entry: its leverage call or its last order failed
TickFailed ==
  /\ sig[1].pc \in {"leverage", "order"}
  /\ sig'[1].pc \notin {"leverage", "order", "protect"}

\* an alert is answered 500 without an order accepted by the venue
AlertFailed ==
  /\ \E alert \in Alerts, response \in {"ok", "MarginInsufficient"} :
        AlertEntry("s1", alert, TRUE, response, "none", None)
  /\ reply'.status = 500
  /\ venue' = venue

\* C20: when the entry order of a tick or of an alert fails, by a transport
\* error or a rejection that the retries at lower precision do not overcome,
\* the step that ends the entry records no Trade and no Position, appends
\* exactly one webhook log, of status failed and with the error, has sent
\* nothing more to the venue, and leaves the tick at its next pair or at its
\* end.
Thm_C20 ==
  [][ (TickFailed \/ AlertFailed) =>
        LET before == IF TickFailed THEN mem ELSE file
            strategyId == IF TickFailed
                          THEN sig[1].strategies[sig[1].si].id ELSE "s1"
            error == IF ~ TickFailed THEN reply'.error
                     ELSE IF sig[1].pc = "leverage" THEN "FailedToSetLeverage"
                     ELSE sig'[1].tried[Len(sig'[1].tried)].result
        IN /\ mem'.trades = before.trades
           /\ mem'.positions = before.positions
           /\ mem'.webhook_logs =
                Append(before.webhook_logs,
                       [user_id |-> StrategyOf(before, strategyId).user_id,
                        strategy_id |-> strategyId, status |-> "failed",
                        error_message |-> error])
           /\ error # Undefined
           /\ file' = mem'
           /\ venue' = venue
           /\ TickFailed => sig'[1].pc \in {"market", "idle"} ]_vars

\* the venue has refused the tick's order for lack of margin, and the last
\* log says so
Wit_C20 ==
  /\ sig[1].pc \in {"market", "idle"}
  /\ Len(sig[1].tried) = 1
  /\ sig[1].tried[1].result = "MarginInsufficient"
  /\ Len(mem.webhook_logs) > 0
  /\ mem.webhook_logs[Len(mem.webhook_logs)].status = "failed"
  /\ mem.webhook_logs[Len(mem.webhook_logs)].error_message
       = "MarginInsufficient"
  /\ venue = <<>>

(***************************************************************************)
(* The reconcile tick repeated.                                            *)
(***************************************************************************)
\* the loop over the groups' positions of a tick that runs alone: the venue
\* answers held[id] for the position id
RECURSIVE MonitorFrom(_, _, _, _, _, _)
MonitorFrom(db, visit, i, held, id, clock) ==
  IF i > Len(visit) THEN [db |-> db, nextId |-> id]
  ELSE LET j == PositionIndex(db, visit[i].id)
           isOpen == IF j = 0 THEN visit[i].is_open ELSE db.positions[j].is_open
           monitored == MonitorPosition(db, visit[i], isOpen,
                                        held[visit[i].id], id, clock)
       IN MonitorFrom(monitored.db, visit, i + 1, held,
                      IF monitored.closing THEN id + 1 ELSE id, clock)

\* a tick that runs alone from its db.read() of the stored file to its answer:
\* db.data and the file as it leaves them. Without an open position it answers
\* before safeWrite.
ReconcileTick(stored, held, id, clock) ==
  LET db0 == Backfill(stored)
      positions == OpenPositions(db0)
      visit == VisitOrder(db0, positions, GroupKeys(positions, {}))
      done == MonitorFrom(db0, visit, 1, held, id, clock)
  IN IF positions = <<>>
     THEN [mem |-> db0, file |-> stored, nextId |-> id]
     ELSE [mem |-> done.db, file |-> done.db, nextId |-> done.nextId]

\* what the venue holds for each of the positions
Helds == [1..Len(LegacyPositions) -> VenueAnswers]

\* C21: whatever the stored repository and whatever the venue holds for the
\* positions, a reconcile tick run after a completed one, the venue holding
\* the same, leaves db.data and the file as the first tick left them: no
\* trade, settlement, ledger transaction, commission or admin earning is
\* added, no balance and no position changes.
Thm_C21 ==
  \A held \in Helds :
     LET once == ReconcileTick(file, held, nextId, now)
         twice == ReconcileTick(once.file, held, once.nextId, now)
     IN /\ twice.mem = once.mem
        /\ twice.file = once.file
        /\ twice.nextId = once.nextId

\* a repository that an earlier tick has closed a position of, and of which
\* a tick closes another at a profit and settles it; the tick after adds
\* nothing
Wit_C21 ==
  /\ AllIdle
  /\ \E i \in 1..Len(file.trades) :
        file.trades[i].triggered_by = "position_monitor"
  /\ \E held \in Helds :
        LET once == ReconcileTick(file, held, nextId, now)
            twice == ReconcileTick(once.file, held, once.nextId, now)
        IN /\ Len(once.file.trades) > Len(file.trades)
           /\ Len(once.file.profit_settlements) > Len(file.profit_settlements)
           /\ twice.file = once.file

(***************************************************************************)
(* What executeTrade asks of the venue for an alert.                       *)
(***************************************************************************)
\* s3 as a strategy for alerts: a position limit and a trailing stop are set
InitExecute ==
  /\ mem = [FundedDb EXCEPT !.trading_strategies[2].max_positions = 3,
                            !.trading_strategies[2].use_trailing_stop = TRUE,
                            !.trading_strategies[2].trailing_stop_callback = 1]
  /\ file = mem
  /\ nextId = Len(LegacyPositions) + 1
  /\ tick = [t \in TickIds |-> IdleTick]
  /\ lastReport = NoReport
  /\ sig = [t \in TickIds |-> IdleSignal]
  /\ now = 0
  /\ venue = <<>>
  /\ reply = NoReply

\* alerts with a quantity, with and without a price, one after the other
NextExecute ==
  \E strategyId \in {"s1", "s3"},
     alert \in {a \in Alerts : /\ a.symbol = "BTCUSDT"
                               /\ a.action \in {"buy", "sell"}
                               /\ a.quantity = Some(12345)},
     price \in {0} \cup MarkPrices,
     leverageOk \in BOOLEAN,
     response \in OrderResponses,
     leg \in {"none"} \cup ProtectiveLegs :
     AlertEntry(strategyId, [alert EXCEPT !.price = price], leverageOk,
                response, leg, None)

SpecExecute == InitExecute /\ [][NextExecute]_vars

\* the calls of the last alert that are of the given kinds
CallsOf(kinds) == SelectSeq(reply.calls, LAMBDA c : c.call \in kinds)

\* C22: an alert's entry order that the venue refuses for its precision is
\* followed by another entry order, as on the tick, as long as there is a
\* coarser precision at which the quantity has a string.
Cex_C22 ==
  LET orders == CallsOf({"order"})
  IN \A k \in 1..Len(orders) :
        (/\ isPrecisionError(orders[k].result)
         /\ k < Len(Rungs(orders[k].quantity)))
        => k < Len(orders)

\* C23: when the leverage call of an alert has failed, no entry order is sent
\* for the alert and the alert is reported as failed.
Cex_C23 ==
  (CallsOf({"leverage"}) # <<>> /\ CallsOf({"leverage"})[1].result # "ok")
  => (CallsOf({"order"}) = <<>> /\ reply.status = 500)

\* C24: after the venue has accepted an alert's entry order, the protective
\* calls made are all those the strategy has enabled, in their order, whether
\* or not one of them failed and whether or not the alert had a price.
Cex_C24 ==
  (CallsOf({"order"}) # <<>> /\ CallsOf({"order"})[1].result = "ok")
  => LET entry == venue[Len(venue)]
         enabled == AlertLegs(StrategyOf(mem, entry.strategy_id), 1,
                              entry.quantity)
         made == CallsOf(ProtectiveLegs)
     IN /\ Len(made) = Len(enabled)
        /\ \A k \in 1..Len(made) : made[k].call = enabled[k]

(***************************************************************************)
(* What the reconcile tick writes when it closes a position.               *)
(***************************************************************************)
\* C25: the step of a tick that closes a position appends one trade of the
\* position's owner and symbol, of the side opposite to the position, with
\* the unrealized PnL the venue reported as realized PnL and position_monitor
\* as trigger, and marks the position closed; when that PnL is above 0 the
\* step adds one settlement, one service-fee transaction and one admin
\* earning for the trade, and when it is 0 or below the settlements, the
\* ledger, the commissions, the admin earnings and the balances stay as they
\* were.
Thm_C25 ==
  [][ \A answer \in VenueAnswers :
        (TickVenue(1, answer) /\ lastReport'.closed) =>
          LET position == tick[1].visit[tick[1].idx]
              trade == mem'.trades[Len(mem'.trades)]
              pnl == OrElse(trade.realized_pnl, 0)
          IN /\ mem'.trades = Append(mem.trades, trade)
             /\ trade.id \notin TradeIds(mem)
             /\ trade.user_id = position.user_id
             /\ trade.symbol = position.symbol
             /\ trade.side = (IF position.side = "long" THEN "sell" ELSE "buy")
             /\ trade.triggered_by = "position_monitor"
             /\ trade.realized_pnl = Some(IF answer.ok THEN answer.pnl ELSE 0)
             /\ ~ mem'.positions[PositionIndex(mem', position.id)].is_open
             /\ IF pnl > 0
                THEN /\ Len(mem'.profit_settlements)
                          = Len(mem.profit_settlements) + 1
                     /\ SettlementsOf(mem', trade.id) = 1
                     /\ FeeTransactionsOf(mem', trade.id) = 1
                     /\ Len(mem'.admin_earnings) = Len(mem.admin_earnings) + 1
                     /\ AdminRowsOf(mem', trade.id) = 1
                ELSE /\ mem'.profit_settlements = mem.profit_settlements
                     /\ mem'.gas_fee_transactions = mem.gas_fee_transactions
                     /\ mem'.referral_commissions = mem.referral_commissions
                     /\ mem'.admin_earnings = mem.admin_earnings
                     /\ mem'.gas_fee_balances = mem.gas_fee_balances ]_vars

\* a tick has closed the short position at a profit of 1000 after it closed
\* the long one at a loss: the last trade is a buy with its settlement, the
\* loss has none
Wit_C25 ==
  /\ lastReport.closed
  /\ lastReport.position_id = 2
  /\ LET trade == mem.trades[Len(mem.trades)]
     IN /\ trade.side = "buy"
        /\ trade.realized_pnl = Some(1000)
        /\ SettlementsOf(mem, trade.id) = 1
        /\ AdminRowsOf(mem, trade.id) = 1
  /\ \E i \in 1..Len(mem.trades) :
        /\ mem.trades[i].triggered_by = "position_monitor"
        /\ mem.trades[i].realized_pnl = Some(-1000)
        /\ SettlementsOf(mem, mem.trades[i].id) = 0

(***************************************************************************)
(* The credentials the reconcile tick finds for its groups of positions.   *)
(***************************************************************************)
\* the owner of the position has an active credential for its venue and
\* environment
HasCredential(db, position) ==
  \E k \in 1..Len(db.api_keys) :
     /\ db.api_keys[k].user_id = position.user_id
     /\ db.api_keys[k].exchange = position.exchange
     /\ db.api_keys[k].environment = position.environment
     /\ db.api_keys[k].product = "futures"
     /\ db.api_keys[k].is_active

\* C26: a tick that starts takes up, for the queries to the venue, every open
\* position whose owner has an active credential for the position's venue
\* and environment.
Cex_C26 ==
  [][ TickStart(1) =>
        \A i \in 1..Len(mem'.positions) :
           (mem'.positions[i].is_open /\ HasCredential(mem', mem'.positions[i]))
           => \E k \in 1..Len(tick'[1].visit) :
                 tick'[1].visit[k].id = mem'.positions[i].id ]_vars

\* the credential of U2 is not active
InitSkip ==
  /\ mem = [LegacyDb EXCEPT !.api_keys[2].is_active = FALSE]
  /\ file = mem
  /\ nextId = Len(LegacyPositions) + 1
  /\ tick = [t \in TickIds |-> IdleTick]
  /\ lastReport = NoReport
  /\ sig = [t \in TickIds |-> IdleSignal]
  /\ now = 0
  /\ venue = <<>>
  /\ reply = NoReply

SpecSkip == InitSkip /\ [][Next]_vars

\* C27: no step of a reconcile tick changes an open position whose owner has
\* no active credential for the position's venue and environment: its record
\* stays as it was, open, and the step adds no trade of that owner and symbol
\* and no settlement of that owner.
Thm_C27 ==
  [][ (TickStart(1) \/ (\E answer \in VenueAnswers : TickVenue(1, answer))
       \/ TickWriteDone(1)) =>
        \A i \in 1..Len(file.positions) :
           LET position == file.positions[i]
               theirs(db) == SelectSeq(db.trades,
                                LAMBDA x : /\ x.user_id = position.user_id
                                           /\ x.symbol = position.symbol)
               settled(db) == SelectSeq(db.profit_settlements,
                                LAMBDA x : x.user_id = position.user_id)
           IN (position.is_open /\ ~ HasCredential(file, position))
              => /\ mem'.positions[i] = position
                 /\ file'.positions[i] = position
                 /\ theirs(mem') = theirs(file)
                 /\ theirs(file') = theirs(file)
                 /\ settled(mem') = settled(file)
                 /\ settled(file') = settled(file) ]_vars

\* a tick has queried and closed the position of U1 and has ended; the
\* position of U2, whose credential is not active, is open as it was
Wit_C27 ==
  /\ AllIdle
  /\ ~ HasCredential(file, file.positions[2])
  /\ file.positions[2] = LegacyPositions[2]
  /\ ~ file.positions[1].is_open
  /\ lastReport.closed
  /\ \E i \in 1..Len(file.trades) :
        file.trades[i].triggered_by = "position_monitor"

(***************************************************************************)
(* The trading session and the loss streak: strategy s1 with session       *)
(* bounds around midnight, well formed or not, and with a limit of two     *)
(* losses in a row, set where the alert handler and where the tick read    *)
(* it, with and without a cooldown of a minute; its owner's latest trades  *)
(* are two losses, or one loss after a profit. Ticks, alerts and minutes   *)
(* come one at a time.                                                     *)
(***************************************************************************)
InitGate ==
  /\ \E session \in {[position_side |-> "BOTH"],
                     [session_start |-> <<Some(0), Some(1)>>,
                      session_end |-> <<Some(0), Some(2)>>],
                     [session_start |-> <<Some(0), Some(2)>>,
                      session_end |-> <<Some(0), Some(0)>>],
                     [session_start |-> <<Some(22)>>,
                      session_end |-> <<Some(0), Some(0)>>],
                     [session_start |-> <<Some(0), Some(1)>>,
                      session_end |-> <<None, Some(0)>>],
                     [session_start |-> <<Some(0), Some(1)>>]},
        streak \in {[position_side |-> "BOTH"],
                    [max_consecutive_losses |-> 2],
                    [max_consecutive_losses |-> 2, cooldown_minutes |-> 1]},
        history \in {<<-100, 100, -100, -100>>, <<-100, -100, 100, -100>>} :
        mem = [FundedDb EXCEPT
                 !.trading_strategies[1].strategy_config = session @@ streak,
                 !.trading_strategies[1].max_consecutive_losses =
                    getConfigNumber(streak, "max_consecutive_losses", 0),
                 !.trading_strategies[2].is_active = FALSE,
                 !.trades = @ \o
                    [k \in 1..Len(history) |->
                       [id |-> 100 + k, user_id |-> U1, exchange |-> "binance",
                        environment |-> "testnet", symbol |-> "ETHUSDT",
                        side |-> "sell", price |-> 50000, quantity |-> 1,
                        realized_pnl |-> Some(history[k]), status |-> "filled",
                        triggered_by |-> "manual_close",
                        created_at |-> k - Len(history)]]]
  /\ file = mem
  /\ nextId = Len(LegacyPositions) + 1
  /\ tick = [t \in TickIds |-> IdleTick]
  /\ lastReport = NoReport
  /\ sig = [t \in TickIds |-> IdleSignal]
  /\ now = 0
  /\ venue = <<>>
  /\ reply = NoReply

NextGate ==
  \/ SignalStart(1)
  \/ \E outcome \in {o \in LadderOutcomes :
                       /\ o.quantity = 500 /\ o.confidence = 1000
                       /\ ~ o.decision.ok} :
        SignalMarket(1, outcome)
  \/ SignalLeverage(1, TRUE)
  \/ SignalAttempt(1, "ok")
  \/ SignalProtect(1, {})
  \/ /\ sig[1].pc = "idle"
     /\ \E alert \in {a \in Alerts : /\ a.symbol = "BTCUSDT" /\ a.action = "buy"
                                     /\ a.quantity = Some(12345)} :
           AlertEntry("s1", alert, TRUE, "ok", "none", None)
  \/ /\ sig[1].pc = "idle"
     /\ AlertClose("s1", "BTCUSDT")
  \/ /\ sig[1].pc = "idle"
     /\ Minute

SpecGate == InitGate /\ [][NextGate]_vars

\* the strategy with the given keys taken out of its strategy_config, and its
\* own max_consecutive_losses with them if that is one of the keys
Without(strategy, keys) ==
  [strategy EXCEPT
     !.strategy_config = [k \in (DOMAIN @) \ keys |-> @[k]],
     !.max_consecutive_losses =
        IF "max_consecutive_losses" \in keys THEN 0 ELSE @]

StreakKeys == {"max_consecutive_losses", "cooldown_minutes"}

\* the rule of the loss streak: the losses met from the owner's latest trade
\* with a realized pnl back to the first profit are at or above the maximum,
\* and no cooldown is configured or the latest loss is less than the
\* cooldown ago
StreakRejects(db, strategy, clock) ==
  LET streak == LossStreak(db, strategy.user_id)
      maximum == ConfiguredLimit(strategy, "max_consecutive_losses")
      cooldown == getConfigNumber(strategy.strategy_config,
                                  "cooldown_minutes", 0)
  IN /\ maximum > 0
     /\ streak.consecutiveLosses >= maximum
     /\ cooldown > 0 => clock - OrElse(streak.lastLossAt, 0) < cooldown

\* C28: a tick takes up a strategy that its other checks let through exactly
\* when the rule of the loss streak does not reject it, and an alert that
\* the other checks of the risk gate let through is answered 'max
\* consecutive losses reached' exactly when the rule rejects it.
Cex_C28 ==
  [][ /\ SignalStart(1) =>
           LET config == WithDefaults(StrategyOf(file, "s1"))
           IN PassesGuards(file, Without(config, StreakKeys), now)
              => ((sig'[1].pc = "market") <=> ~ StreakRejects(file, config, now))
      /\ (\E alert \in Alerts : AlertEntry("s1", alert, TRUE, "ok", "none", None))
         => LET strategy == StrategyOf(file, "s1")
            IN AlertRiskGate(file, Without(strategy, StreakKeys), now, None) = "ok"
               => ((reply'.error = "MaxConsecutiveLossesReached")
                   <=> StreakRejects(file, strategy, now)) ]_vars

SessionKeys == {"session_start", "session_end"}

\* the bound as minutes of the day, None when the key is not set or the text
\* is not hours and minutes
SessionBound(config, key) ==
  IF key \notin DOMAIN config THEN None
  ELSE IF Len(config[key]) < 2 THEN None
  ELSE IF config[key][1] = None \/ config[key][2] = None THEN None
  ELSE Some(OrElse(config[key][1], 0) * 60 + OrElse(config[key][2], 0))

\* the rule of the session for the minute t of the day
Admits(config, t) ==
  LET S == OrElse(SessionBound(config, "session_start"), 0)
      E == OrElse(SessionBound(config, "session_end"), 0)
  IN IF \/ SessionBound(config, "session_start") = None
        \/ SessionBound(config, "session_end") = None
     THEN TRUE
     ELSE IF S <= E THEN S <= t /\ t <= E
     ELSE t >= S \/ t <= E

\* C29: a tick takes up a strategy that its other checks let through exactly
\* when the session admits the minute of the day (S <= t <= E, or t >= S or
\* t <= E for a session over midnight, any t when a bound is missing or not
\* hours and minutes); a buy or sell alert is answered 'outside trading
\* session' exactly when the session does not admit the minute; a close
\* alert is never answered so and adds no log.
Thm_C29 ==
  [][ /\ SignalStart(1) =>
           LET config == WithDefaults(StrategyOf(file, "s1"))
           IN PassesGuards(file, Without(config, SessionKeys), now)
              => ((sig'[1].pc = "market")
                  <=> Admits(config.strategy_config, now % MinutesPerDay))
      /\ (\E alert \in Alerts : AlertEntry("s1", alert, TRUE, "ok", "none", None))
         => ((reply'.error = "OutsideTradingSession")
             <=> ~ Admits(StrategyOf(file, "s1").strategy_config,
                          now % MinutesPerDay))
      /\ AlertClose("s1", "BTCUSDT")
         => /\ reply'.error # "OutsideTradingSession"
            /\ mem'.webhook_logs = file.webhook_logs ]_vars

\* with the session from 00:02 to 00:00, over midnight, the alert of minute 1
\* has been turned away and the clock is at minute 2, inside the session
Wit_C29 ==
  /\ "session_start" \in DOMAIN StrategyOf(mem, "s1").strategy_config
  /\ SessionBound(StrategyOf(mem, "s1").strategy_config, "session_start") = Some(2)
  /\ SessionBound(StrategyOf(mem, "s1").strategy_config, "session_end") = Some(0)
  /\ reply.error = "OutsideTradingSession"
  /\ now = 2
  /\ Len(mem.webhook_logs) = 1
  /\ mem.webhook_logs[1].status = "rejected"

\* C30: a step of a signal tick leaves every field of every stored strategy
\* as it was, except last_signal_at, and changes last_signal_at only of a
\* strategy for which the step stores a new trade with its log of an
\* executed signal.
Cex_C30 ==
  [][ /\ Len(file'.trading_strategies) = Len(file.trading_strategies)
      /\ \A i \in 1..Len(file.trading_strategies) :
            LET before == file.trading_strategies[i]
                after == file'.trading_strategies[i]
            IN /\ [after EXCEPT !.last_signal_at = before.last_signal_at]
                    = before
               /\ after.last_signal_at # before.last_signal_at
                  => /\ Len(file'.trades) > Len(file.trades)
                     /\ \E k \in 1..Len(file'.webhook_logs) :
                           /\ k > Len(file.webhook_logs)
                           /\ file'.webhook_logs[k].strategy_id = before.id
                           /\ file'.webhook_logs[k].status = "executed" ]_vars

(***************************************************************************)
(* The referral walk over other profile graphs: the referrer links of      *)
(* pf1, pf2 and pf3 are drawn, so that there are chains of every length,   *)
(* a link to a profile that does not exist, a profile that refers to       *)
(* itself and cycles of two and three profiles.                            *)
(***************************************************************************)
InitGraph ==
  /\ \E r1 \in {"pf2", "pf1", "pf9", Undefined}, r2 \in {"pf3", "pf1"},
        r3 \in {"pf4", "pf1"} :
        mem = [LegacyDb EXCEPT !.profiles[1].referrer_id = r1,
                               !.profiles[2].referrer_id = r2,
                               !.profiles[3].referrer_id = r3]
  /\ file = mem
  /\ nextId = Len(LegacyPositions) + 1
  /\ tick = [t \in TickIds |-> IdleTick]
  /\ lastReport = NoReport
  /\ sig = [t \in TickIds |-> IdleSignal]
  /\ now = 0
  /\ venue = <<>>
  /\ reply = NoReply

SpecGraph == InitGraph /\ [][NextSettle]_vars

\* the profile k referrer links above the user's, 0 when the user has no
\* profile, a link on the way is not set or its profile does not exist
RECURSIVE AncestorAt(_, _, _)
AncestorAt(db, userId, k) ==
  IF k = 0 THEN ProfileOfUser(db, userId)
  ELSE LET below == AncestorAt(db, userId, k - 1)
       IN IF below = 0 THEN 0
          ELSE IF db.profiles[below].referrer_id = Undefined THEN 0
          ELSE ProfileById(db, db.profiles[below].referrer_id)

\* min(3, d), d the number of consecutive existing links from the user
LinksUpTo3(db, userId) ==
  Cardinality({k \in 1..3 : AncestorAt(db, userId, k) # 0})

\* C31: for every profile graph, with cycles or without, the referral walk
\* ends and returns the first min(3, d) ancestors of the user in order, at
\* the levels 1..min(3, d), d being the number of consecutive existing
\* referrer links from the user's profile; the chain is empty for a user
\* without a profile or without a referrer.
Thm_C31 ==
  \A userId \in Users \cup {U5} :
     LET chain == getReferralChain(mem, userId)
     IN /\ Len(chain) = LinksUpTo3(mem, userId)
        /\ \A k \in 1..Len(chain) :
              /\ chain[k].level = k
              /\ chain[k].referrerProfile
                   = mem.profiles[AncestorAt(mem, userId, k)]
        /\ (\/ ProfileOfUser(mem, userId) = 0
            \/ mem.profiles[ProfileOfUser(mem, userId)].referrer_id = Undefined)
           => chain = <<>>

\* pf1 and pf2 refer to each other: a profit of U1 has been settled with
\* commissions to U2, U1 and U2 again, and U5 has no profile
Wit_C31 ==
  /\ mem.profiles[1].referrer_id = "pf2"
  /\ mem.profiles[2].referrer_id = "pf1"
  /\ ProfileOfUser(mem, U5) = 0
  /\ Len(mem.referral_commissions) = 3
  /\ mem.referral_commissions[1].beneficiary_user_id = U2
  /\ mem.referral_commissions[2].beneficiary_user_id = U1
  /\ mem.referral_commissions[3].beneficiary_user_id = U2
  /\ \A k \in 1..3 : mem.referral_commissions[k].level = k

(***************************************************************************)
(* The analyzer of the signal tick. Prices are whole numbers, averages of  *)
(* gains and losses are in ten-thousandths, rounded down where the code    *)
(* has a float; an RSI and its thresholds are in hundredths (7000 for 70), *)
(* a volatility in tenths of a percent (50 for 5%), a confidence in        *)
(* thousandths. The moving averages, the MACD and the volume are not       *)
(* computed: a market says how they compare.                               *)
(***************************************************************************)
\* gains.slice(0, period).reduce((a, b) => a + b, 0), the sum of xs[from..to]
\* taken by halves
RECURSIVE SumOf(_, _, _)
SumOf(xs, from, to) ==
  IF from > to THEN 0
  ELSE IF from = to THEN xs[from]
  ELSE SumOf(xs, from, (from + to) \div 2)
       + SumOf(xs, (from + to) \div 2 + 1, to)

\* one turn of the smoothing loop of calculateRSI: the averages take in the
\* i-th gain and loss and one value is pushed
SmoothOnce(gains, losses, period, i, state) ==
  LET avgGain == (state.avgGain * (period - 1) + gains[i]) \div period
      avgLoss == (state.avgLoss * (period - 1) + losses[i]) \div period
  IN [avgGain |-> avgGain, avgLoss |-> avgLoss,
      \* rs = avgLoss === 0 ? 100 : avgGain / avgLoss, and
      \* 100 - 100 / (1 + rs) = 100 * rs / (1 + rs)
      rsi |-> Append(state.rsi,
                     IF avgLoss = 0 THEN (10000 * 100) \div 101
                     ELSE (10000 * avgGain) \div (avgGain + avgLoss))]

\* the smoothing loop of calculateRSI over the turns from..to, in order: the
\* first half of the turns, then the second half from the state the first
\* half has left (taken from a set of one state, so that it is a value)
RECURSIVE SmoothOver(_, _, _, _, _, _)
SmoothOver(gains, losses, period, from, to, state) ==
  IF from > to THEN state
  ELSE CHOOSE after \in
         {IF from = to THEN SmoothOnce(gains, losses, period, from, before)
          ELSE SmoothOver(gains, losses, period, (from + to) \div 2 + 1, to,
                          SmoothOver(gains, losses, period, from,
                                     (from + to) \div 2, before)) :
            before \in {state}} :
         TRUE

\* export function calculateRSI
calculateRSI(prices, period) ==
  IF Len(prices) < period + 1 THEN <<>>
  ELSE CHOOSE rsi \in
         {SmoothOver(changes[1], changes[2], period, period + 1,
                     Len(prices) - 1,
                     [avgGain |-> SumOf(changes[1], 1, period) \div period,
                      avgLoss |-> SumOf(changes[2], 1, period) \div period,
                      rsi |-> <<>>]).rsi :
            changes \in
              {<<[i \in 1..(Len(prices) - 1) |->
                    IF prices[i + 1] > prices[i]
                    THEN (prices[i + 1] - prices[i]) * 10000 ELSE 0],
                 [i \in 1..(Len(prices) - 1) |->
                    IF prices[i + 1] < prices[i]
                    THEN (prices[i] - prices[i + 1]) * 10000 ELSE 0]>>}} :
         TRUE

\* const rsiOverbought, const rsiOversold
RsiThresholds(indicators) ==
  [overbought |-> IF indicators.rsi_overbought >= 7000 THEN 7500
                  ELSE indicators.rsi_overbought,
   oversold |-> IF indicators.rsi_oversold <= 3000 THEN 2500
                ELSE indicators.rsi_oversold]

\* (variant: three confirmations are enough in any market)
analyzeSignalUnfiltered(market, currentRSI, indicators) ==
  LET rsi_signal == IF currentRSI < RsiThresholds(indicators).oversold
                    THEN "oversold"
                    ELSE IF currentRSI > RsiThresholds(indicators).overbought
                    THEN "overbought" ELSE "neutral"
      One(b) == IF b THEN 1 ELSE 0
      bullishCount == One(market.ema_trend = "bullish")
                      + One(rsi_signal = "oversold"
                            \/ (rsi_signal = "neutral"
                                /\ market.ema_trend = "bullish"))
                      + One(market.macd_signal = "bullish")
                      + One(market.volume_confirmed)
      bearishCount == One(market.ema_trend = "bearish")
                      + One(rsi_signal = "overbought"
                            \/ (rsi_signal = "neutral"
                                /\ market.ema_trend = "bearish"))
                      + One(market.macd_signal = "bearish")
                      + One(market.volume_confirmed)
      action == IF bullishCount >= 3 THEN "buy"
                ELSE IF bearishCount >= 3 THEN "sell" ELSE "none"
      confidence == IF bullishCount >= 3 THEN bullishCount * 250
                    ELSE IF bearishCount >= 3 THEN bearishCount * 250 ELSE 0
  IN IF ~ market.emaReady
     THEN [action |-> "none", confidence |-> 0, rsi_value |-> 5000,
           indicators |-> [ema_trend |-> "neutral", rsi_signal |-> "neutral",
                           macd_signal |-> "neutral",
                           volume_confirmed |-> FALSE]]
     ELSE [action |-> action, confidence |-> confidence,
           rsi_value |-> currentRSI,
           indicators |-> [ema_trend |-> market.ema_trend,
                           rsi_signal |-> rsi_signal,
                           macd_signal |-> market.macd_signal,
                           volume_confirmed |-> market.volume_confirmed]]

\* export function analyzeSignal, from the RSI analysis on: currentRSI is the
\* last value of calculateRSI or 50, market.emaReady says that both moving
\* averages have two values
analyzeSignal(market, currentRSI, indicators) ==
  LET rsi_signal == IF currentRSI < RsiThresholds(indicators).oversold
                    THEN "oversold"
                    ELSE IF currentRSI > RsiThresholds(indicators).overbought
                    THEN "overbought" ELSE "neutral"
      One(b) == IF b THEN 1 ELSE 0
      bullishCount == One(market.ema_trend = "bullish")
                      + One(rsi_signal = "oversold"
                            \/ (rsi_signal = "neutral"
                                /\ market.ema_trend = "bullish"))
                      + One(market.macd_signal = "bullish")
                      + One(market.volume_confirmed)
      bearishCount == One(market.ema_trend = "bearish")
                      + One(rsi_signal = "overbought"
                            \/ (rsi_signal = "neutral"
                                /\ market.ema_trend = "bearish"))
                      + One(market.macd_signal = "bearish")
                      + One(market.volume_confirmed)
      scored == IF bullishCount >= 3
                THEN [action |-> "buy", confidence |-> bullishCount * 250]
                ELSE IF bearishCount >= 3
                THEN [action |-> "sell", confidence |-> bearishCount * 250]
                ELSE [action |-> "none", confidence |-> 0]
      \* the filter of sideways markets
      steady == IF /\ scored.action # "none" /\ ~ market.isTrending
                   /\ bullishCount < 4 /\ bearishCount < 4
                THEN [action |-> "none", confidence |-> 0] ELSE scored
      \* the filter of volatile markets
      calm == IF /\ steady.action # "none" /\ market.volatility > 50
                 /\ bullishCount < 4 /\ bearishCount < 4
              THEN [action |-> "none", confidence |-> 0] ELSE steady
      \* Math.min(1.0, confidence * 1.1)
      boosted == IF /\ calm.action # "none" /\ market.isTrending
                    /\ market.volatility < 30
                 THEN IF (calm.confidence * 11) \div 10 > 1000 THEN 1000
                      ELSE (calm.confidence * 11) \div 10
                 ELSE calm.confidence
  IN IF ~ market.emaReady
     THEN [action |-> "none", confidence |-> 0, rsi_value |-> 5000,
           indicators |-> [ema_trend |-> "neutral", rsi_signal |-> "neutral",
                           macd_signal |-> "neutral",
                           volume_confirmed |-> FALSE]]
     ELSE [action |-> calm.action, confidence |-> boosted,
           rsi_value |-> currentRSI,
           indicators |-> [ema_trend |-> market.ema_trend,
                           rsi_signal |-> rsi_signal,
                           macd_signal |-> market.macd_signal,
                           volume_confirmed |-> market.volume_confirmed]]

\* one turn of for (const pair of pairs) up to the leverage call: the market
\* is what fetchKlines returns (closes, one per candle), how the indicators
\* the model does not compute compare, what the sizing gives, and whether a
\* statement of the turn throws
SignalPair(t, market) ==
  LET config == sig[t].strategies[sig[t].si]
      \* a strategy that has no indicators has been given 14, 70 and 30 by
      \* the tick's first statement
      indicators == IF "auto_signal_indicators" \in DOMAIN config
                    THEN config.auto_signal_indicators
                    ELSE [rsi_period |-> 14, rsi_overbought |-> 7000,
                          rsi_oversold |-> 3000]
  IN /\ sig[t].pc = "market"
     /\ IF market.throws \/ Len(market.closes) < 50
        THEN /\ sig' = [sig EXCEPT ![t] = AfterPair(mem, sig[t], now)]
             /\ UNCHANGED <<mem, file, nextId, tick, lastReport, reply, now,
                            venue>>
        ELSE \E rsiValues \in {calculateRSI(market.closes,
                                            indicators.rsi_period)} :
             \E currentRSI \in {IF rsiValues = <<>> THEN 5000
                                 ELSE rsiValues[Len(rsiValues)]} :
             \E signal \in {analyzeSignal(market, currentRSI, indicators)} :
                SignalMarket(t, [action |-> signal.action, price |-> 50000,
                                 confidence |-> signal.confidence,
                                 volume_confirmed |->
                                    signal.indicators.volume_confirmed,
                                 book |-> None,
                                 decision |-> [ok |-> FALSE, execute |-> FALSE,
                                               confidence |-> 0,
                                               reason |-> "gemini_http"],
                                 quantity |-> market.quantity])

\* a market with four confirmations of a buy in which the sizing gives the
\* quantity 1.2345
CalmMarket ==
  [closes |-> [i \in 1..50 |-> 200 - i], throws |-> FALSE,
   emaReady |-> TRUE, ema_trend |-> "bullish", macd_signal |-> "bullish",
   volume_confirmed |-> TRUE, isTrending |-> TRUE, volatility |-> 20,
   quantity |-> 12345]

\* the markets in which a turn ends in each of its ways: an order, no signal
\* or a filtered one, a statement that throws, too few candles
EndingMarkets ==
  {CalmMarket,
   [CalmMarket EXCEPT
      !.volume_confirmed = FALSE,
      !.closes = [i \in 1..50 |-> 100 + (i \div 2) + 2 * (i % 2)]],
   [CalmMarket EXCEPT !.throws = TRUE],
   [CalmMarket EXCEPT !.closes = [i \in 1..10 |-> 100 + i]]}

\* the markets of a pair: the ones above where the RSI is 0, between 60 and
\* 70 with the volume missing, not computed; one with three confirmations in
\* a sideways market; one without moving averages; the first again for the
\* quantity 10.5; and one whose closes only rise
Markets ==
  EndingMarkets
  \cup {[CalmMarket EXCEPT !.volume_confirmed = FALSE, !.isTrending = FALSE],
        [CalmMarket EXCEPT !.emaReady = FALSE],
        [CalmMarket EXCEPT !.quantity = 105000],
        [CalmMarket EXCEPT !.closes = [i \in 1..50 |-> 100 + i]]}

\* s1 trades two pairs with indicators of its own, the thresholds of the RSI
\* at 70 and 30 or at 60 and 40; the credential of its owner is active or not
InitAnalyze ==
  /\ \E bands \in {[rsi_period |-> 14, rsi_overbought |-> 7000,
                    rsi_oversold |-> 3000],
                   [rsi_period |-> 14, rsi_overbought |-> 6000,
                    rsi_oversold |-> 4000]},
        active \in BOOLEAN :
        /\ active \/ bands.rsi_overbought = 7000
        /\ mem = [FundedDb EXCEPT
                   !.trading_strategies[1] =
                      [auto_signal_indicators |-> bands] @@
                      [@ EXCEPT !.allowed_pairs = <<"BTCUSDT", "ETHUSDT">>],
                   !.api_keys[1].is_active = active]
  /\ file = mem
  /\ nextId = Len(LegacyPositions) + 1
  /\ tick = [t \in TickIds |-> IdleTick]
  /\ lastReport = NoReport
  /\ sig = [t \in TickIds |-> IdleSignal]
  /\ now = 0
  /\ venue = <<>>
  /\ reply = NoReply

NextAnalyze ==
  \/ SignalStart(1)
  \/ \E market \in Markets : SignalPair(1, market)
  \/ \E ok \in BOOLEAN : SignalLeverage(1, ok)
  \/ \E response \in {"ok", "PrecisionOverMax", "MarginInsufficient"} :
        SignalAttempt(1, response)
  \/ SignalProtect(1, {})

SpecAnalyze == InitAnalyze /\ [][NextAnalyze]_vars

\* the tick over the markets in which a turn ends in each of its ways
NextAnalyzeFair ==
  \/ SignalStart(1)
  \/ \E market \in EndingMarkets : SignalPair(1, market)
  \/ \E ok \in BOOLEAN : SignalLeverage(1, ok)
  \/ \E response \in {"ok", "PrecisionOverMax", "MarginInsufficient"} :
        SignalAttempt(1, response)
  \/ SignalProtect(1, {})

\* the tick is scheduled until it has answered
SpecAnalyzeFair ==
  InitAnalyze /\ [][NextAnalyzeFair]_vars /\ WF_vars(NextAnalyzeFair)

\* the strategies from the given one on that pass the checks before the pairs
EligibleFrom(db, strategies, from, clock) ==
  {j \in from..Len(strategies) : PassesGuards(db, strategies[j], clock)}

\* the tick is at the first pair of the first strategy of the set, or has
\* answered if the set is empty
AtFirstOf(t, eligible) ==
  IF eligible = {} THEN sig'[t].pc = "idle"
  ELSE /\ sig'[t].pc = "market"
       /\ sig'[t].pi = 1
       /\ sig'[t].si \in eligible
       /\ \A j \in eligible : sig'[t].si <= j

\* C32: a pair whose turn ends without an accepted order (too few candles,
\* a statement that throws, no signal, a filtered signal, a leverage or an
\* order the venue refuses) leaves the venue, the trades and the positions
\* as they were, and the tick goes on with the next pair of the strategy
\* or, after the last pair, with the next strategy that passes the checks;
\* a strategy that does not pass them (no credential) is passed over alone;
\* and every tick ends with its answer.
Thm_C32 ==
  /\ [][ /\ (sig[1].pc = "idle" /\ sig'[1] # sig[1])
            => AtFirstOf(1, EligibleFrom(mem',
                                SelectSeq(mem'.trading_strategies, IsAutoStrategy),
                                1, now))
         /\ (sig[1].pc \in {"market", "leverage", "order"}
             /\ sig'[1].pc \in {"market", "idle"})
            => /\ venue' = venue
               /\ mem'.trades = mem.trades
               /\ mem'.positions = mem.positions
               /\ IF sig[1].pi < Len(sig[1].strategies[sig[1].si].allowed_pairs)
                  THEN /\ sig'[1].pc = "market"
                       /\ sig'[1].si = sig[1].si
                       /\ sig'[1].pi = sig[1].pi + 1
                  ELSE AtFirstOf(1, EligibleFrom(mem', sig[1].strategies,
                                                 sig[1].si + 1, now)) ]_vars
  /\ (sig[1].pc # "idle") ~> (sig[1].pc = "idle")

\* the order of s1's first pair has been refused for the margin and logged,
\* nothing was sent for its second pair, and the tick is at the pair of s3
Wit_C32 ==
  /\ sig[1].pc = "market"
  /\ sig[1].strategies[sig[1].si].id = "s3"
  /\ Len(mem.webhook_logs) = 1
  /\ mem.webhook_logs[1].status = "failed"
  /\ mem.webhook_logs[1].strategy_id = "s1"
  /\ Len(sig[1].tried) = 1
  /\ sig[1].tried[1].result = "MarginInsufficient"
  /\ venue = <<>>

\* C33: the thresholds the analyzer applies to the RSI for the strategy whose
\* pair is analysed are never looser than 30 and 70: the oversold one is at
\* most 30 and the overbought one at least 70.
Cex_C33 ==
  [][(sig[1].pc = "market" /\ sig'[1] # sig[1])
     => LET config == sig[1].strategies[sig[1].si]
        IN "auto_signal_indicators" \in DOMAIN config
           => /\ RsiThresholds(config.auto_signal_indicators).oversold <= 3000
              /\ RsiThresholds(config.auto_signal_indicators).overbought
                   >= 7000]_vars

\* the analyses a pair can be given: the RSI low, middle and high, the
\* volatility below 3%, at 3%, between, at 5% and above
AnalysedRSI == {2000, 2750, 5000, 7250, 8000}
AnalysedVolatility == {20, 30, 40, 50, 60}
AnalysedMarkets ==
  {[closes |-> <<>>, throws |-> FALSE, emaReady |-> ready, ema_trend |-> ema,
    macd_signal |-> macd, volume_confirmed |-> volume,
    isTrending |-> trending, volatility |-> volatility, quantity |-> 12345] :
     ready \in BOOLEAN, ema \in {"bullish", "bearish", "neutral"},
     macd \in {"bullish", "bearish", "neutral"}, volume \in BOOLEAN,
     trending \in BOOLEAN, volatility \in AnalysedVolatility}

\* the number of the four confirmations of a side that the analyzer's own
\* classification gives
Confirmations(state, side, extreme) ==
  LET One(b) == IF b THEN 1 ELSE 0
  IN One(state.ema_trend = side)
     + One(state.rsi_signal = extreme
           \/ (state.rsi_signal = "neutral" /\ state.ema_trend = side))
     + One(state.macd_signal = side)
     + One(state.volume_confirmed)

\* C34: for every combination of the classifications that the pair of the
\* strategy in turn can be given, the analyzer answers
\* buy (sell) exactly when the bullish (bearish) confirmations are at least 3
\* of 4 and either all 4 or the market is trending with a volatility of at
\* most 5%, and none with confidence 0 otherwise; the confidence of a buy or
\* sell is the count over 4, raised by a tenth but to no more than 1.0 when
\* the market is trending with a volatility below 3%.
Thm_C34 ==
  sig[1].pc = "market" =>
  \A market \in AnalysedMarkets, currentRSI \in AnalysedRSI :
     LET config == sig[1].strategies[sig[1].si]
         signal == analyzeSignal(market, currentRSI,
                                 IF "auto_signal_indicators" \in DOMAIN config
                                 THEN config.auto_signal_indicators
                                 ELSE [rsi_period |-> 14,
                                       rsi_overbought |-> 7000,
                                       rsi_oversold |-> 3000])
         bullishCount == Confirmations(signal.indicators, "bullish", "oversold")
         bearishCount == Confirmations(signal.indicators, "bearish",
                                       "overbought")
         Passes(count) == /\ count >= 3
                          /\ \/ count = 4
                             \/ market.isTrending /\ market.volatility <= 50
         Confidence(count) ==
           IF market.isTrending /\ market.volatility < 30
           THEN IF (count * 250 * 11) \div 10 > 1000 THEN 1000
                ELSE (count * 250 * 11) \div 10
           ELSE count * 250
     IN /\ signal.action = "buy" <=> Passes(bullishCount)
        /\ signal.action = "sell" <=> Passes(bearishCount)
        /\ signal.action \in {"buy", "sell", "none"}
        /\ signal.action = "none" => signal.confidence = 0
        /\ signal.action = "buy" => signal.confidence = Confidence(bullishCount)
        /\ signal.action = "sell"
           => signal.confidence = Confidence(bearishCount)
        /\ signal.confidence <= 1000

\* the tick holds a buy signal of three confirmations found in a trending
\* market of low volatility: 0.75 raised to 0.825
Wit_C34 ==
  /\ sig[1].pc = "leverage"
  /\ sig[1].signal.action = "buy"
  /\ sig[1].signal.confidence = 825

\* C35: the RSI the tick computes for the strategy in turn from the closes
\* of a market is exactly 100 at every point up to which no close was below
\* the one before it (the average loss is 0 there), and the empty sequence
\* when there are fewer than period + 1 closes.
Cex_C35 ==
  sig[1].pc = "market" =>
  \A market \in Markets :
     LET config == sig[1].strategies[sig[1].si]
         period == IF "auto_signal_indicators" \in DOMAIN config
                   THEN config.auto_signal_indicators.rsi_period ELSE 14
         prices == market.closes
         rsi == calculateRSI(prices, period)
     IN /\ Len(prices) < period + 1 => rsi = <<>>
        /\ \A i \in DOMAIN rsi :
              (\A k \in 1..(period + i) : prices[k + 1] >= prices[k])
              => rsi[i] = 10000

\* C36: the quantity of every order attempt of the tick is the sized
\* quantity cut to the decimals of the attempt, neither more nor less, and
\* not 0.
Cex_C36 ==
  \A i \in DOMAIN sig[1].tried :
     LET attempt == sig[1].tried[i]
     IN /\ attempt.quantity
             = sig[1].quantity
               - (sig[1].quantity % Pow10(4 - attempt.decimals))
        /\ attempt.quantity > 0

\* C37: when a reconcile tick answers, the settlements, the ledger
\* transactions, the balances, the commissions and the admin earnings that
\* its backfill has made are in the file, on the path through safeWrite and
\* on the path that answers at once because no position is open.
Cex_C37 ==
  [][(/\ \/ TickStart(1)
         \/ TickWriteDone(1)
      /\ tick'[1].pc = "idle")
     => /\ file'.profit_settlements = mem'.profit_settlements
        /\ file'.gas_fee_transactions = mem'.gas_fee_transactions
        /\ file'.gas_fee_balances = mem'.gas_fee_balances
        /\ file'.referral_commissions = mem'.referral_commissions
        /\ file'.admin_earnings = mem'.admin_earnings]_vars

(***************************************************************************)
(* A reconcile tick and the approval of deposits: the approval is another  *)
(* request, which the server takes up while the tick awaits the venue or   *)
(* the file.                                                               *)
(***************************************************************************)
NextReload ==
  \/ TickStart(1)
  \/ \E answer \in ReachableVenueAnswers : TickVenue(1, answer)
  \/ TickWriteDone(1)
  \/ \E caller \in {Admin, U1}, depositId \in 1..Len(AllDeposits) :
        ApproveDeposit(caller, depositId)

SpecReload == Init /\ [][NextReload]_vars

\* C38: what a reconcile tick persists holds every closure it has made, also
\* when another request has read the repository from the file in between:
\* for every id it has given to a closing trade, the file has the trade,
\* its position closed and, for a profit, its settlement with the fee
\* transaction.
Cex_C38 ==
  [][TickWriteDone(1)
     => \A id \in (Len(LegacyPositions) + 1)..(nextId - 1) :
           \E i \in 1..Len(file'.trades) :
              LET trade == file'.trades[i]
              IN /\ trade.id = id
                 /\ trade.triggered_by = "position_monitor"
                 /\ \E j \in 1..Len(file'.positions) :
                       /\ file'.positions[j].user_id = trade.user_id
                       /\ file'.positions[j].symbol = trade.symbol
                       /\ file'.positions[j].exchange = trade.exchange
                       /\ file'.positions[j].environment = trade.environment
                       /\ ~ file'.positions[j].is_open
                 /\ OrElse(trade.realized_pnl, 0) > 0
                    => /\ SettlementsOf(file', id) = 1
                       /\ FeeTransactionsOf(file', id) = 1]_vars

\* C39: in the repository (db.data and the file) every trade id has as many
\* settlements as service_fee transactions and as admin rows, and as many
\* commissions as referral_commission transactions: no settlement is
\* recorded in part.
Thm_C39 ==
  \A db \in {mem, file} :
     \A id \in 1..(MaxIds + 1) :
        /\ SettlementsOf(db, id) = FeeTransactionsOf(db, id)
        /\ SettlementsOf(db, id) = AdminRowsOf(db, id)
        /\ Count(db.referral_commissions, LAMBDA r : r.trade_id = id)
             = Count(db.gas_fee_transactions,
                     LAMBDA r : /\ r.transaction_type = "referral_commission"
                                /\ r.trade_id = id)

\* the file holds the settlement of a closing trade of the monitor with its
\* fee transaction, its admin row and a commission with its transaction
Wit_C39 ==
  \E i \in 1..Len(file.trades) :
     /\ file.trades[i].triggered_by = "position_monitor"
     /\ SettlementsOf(file, file.trades[i].id) = 1
     /\ FeeTransactionsOf(file, file.trades[i].id) = 1
     /\ AdminRowsOf(file, file.trades[i].id) = 1
     /\ CommissionsOf(file, file.trades[i].id, 1) = 1
     /\ \E user \in Users :
           CommissionTransactionsOf(file, file.trades[i].id, user) = 1

\* C40: every gas-fee balance record of the repository (db.data and the
\* file) has balance = total_deposited - total_deducted, after registrations,
\* deposit approvals and the settlements of the reconcile tick.
Thm_C40 ==
  \A db \in {mem, file} :
     \A i \in 1..Len(db.gas_fee_balances) :
        db.gas_fee_balances[i].balance
          = db.gas_fee_balances[i].total_deposited
            - db.gas_fee_balances[i].total_deducted

\* the file holds a record that took a deposit and a fee, one that was paid
\* a commission only, and the two records of a registration
Wit_C40 ==
  /\ \E i \in 1..Len(file.gas_fee_balances) :
        /\ file.gas_fee_balances[i].total_deposited > 0
        /\ file.gas_fee_balances[i].total_deducted > 0
        /\ \E k \in 1..Len(file.gas_fee_transactions) :
              /\ file.gas_fee_transactions[k].transaction_type = "deposit"
              /\ file.gas_fee_transactions[k].user_id
                   = file.gas_fee_balances[i].user_id
              /\ file.gas_fee_transactions[k].environment
                   = file.gas_fee_balances[i].environment
  /\ \E i \in 1..Len(file.gas_fee_balances) :
        /\ file.gas_fee_balances[i].total_deposited > 0
        /\ file.gas_fee_balances[i].total_deducted = 0
        /\ \E k \in 1..Len(file.gas_fee_transactions) :
              /\ file.gas_fee_transactions[k].transaction_type
                   = "referral_commission"
              /\ file.gas_fee_transactions[k].user_id
                   = file.gas_fee_balances[i].user_id
              /\ file.gas_fee_transactions[k].environment
                   = file.gas_fee_balances[i].environment
  /\ \A environment \in Environments :
        BalanceRecordsOf(file, NewUsers[1], environment) = 1

=============================================================================
